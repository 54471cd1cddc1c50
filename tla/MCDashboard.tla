---------------------------- MODULE MCDashboard -----------------------------
(* Dashboard on a small instance. *)
EXTENDS Dashboard, TLC

Symmetric == Permutations(Requests) \cup Permutations(Names)

Key(text, genuine, product, tier, expires, long) ==
    [text |-> text, good |-> TRUE, genuine |-> genuine, product |-> product, tier |-> tier,
     expires |-> expires, long |-> long]
SomeKeys == {
    NoKey,
    Key("pro", TRUE, "loglight", "pro", 0, 2),
    Key("team", TRUE, "loglight", "team", 1, 3),
    Key("unknown", TRUE, "loglight", "gold", 1, 2),
    Key("forged", FALSE, "loglight", "team", 1, 2),
    Key("other", TRUE, "decoy", "team", 1, 2)}

\* Evidence with secrets at every level, too deep, too wide and too long.
Scalar == [type |-> "scalar"]
LongText == [type |-> "text", len |-> 3]
Entry(secret, val) == [secret |-> secret, val |-> val]
Map(entries) == [type |-> "map", entries |-> entries]
List(items) == [type |-> "list", items |-> items]
Inner == Map(<<Entry(TRUE, Scalar), Entry(FALSE, LongText)>>)
Items == List(<<Inner, Scalar, LongText>>)
Middle == Map(<<Entry(FALSE, Items), Entry(TRUE, Inner), Entry(FALSE, Inner), Entry(FALSE, Scalar)>>)
Outer == Map(<<Entry(TRUE, Middle), Entry(FALSE, Middle), Entry(FALSE, LongText), Entry(FALSE, Scalar)>>)
SomeValues == {Scalar, LongText, Inner, Items, Middle, Outer}

SomeFindings == {[severity |-> "info", evidence |-> Outer], [severity |-> "", evidence |-> Inner]}

Reply(status, body) == [status |-> status, body |-> body]
Says(sentences) == [status |-> "2xx", body |-> "text", says |-> sentences]
SomeReplies == {
    Reply("none", ""), Reply("4xx", ""), Reply("2xx", "error"), Reply("2xx", "junk"),
    Says(<<"low", "", "informational", "high">>), Says(<<"low", "high">>)}
=============================================================================
