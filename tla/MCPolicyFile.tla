---------------------------- MODULE MCPolicyFile ----------------------------
(* Instances of PolicyFile: two containers, one listed by hand in every      *)
(* spelling, and an image with and without its tag.                         *)
EXTENDS PolicyFile, TLC

CONSTANTS e1, e2

Web == [id |-> "1a2b", name |-> "web"]
Db == [id |-> "3c4d", name |-> "3c4d"]

MCContainers == {Web, Db}

Redis == [parts |-> <<"redis">>, tag |-> Nothing, digest |-> Nothing]
RedisLatest == [Redis EXCEPT !.tag = "latest"]

MCImages == {Redis, RedisLatest}

Spellings == {Plain("web"), [ref |-> "web", dressed |-> TRUE], Plain("1a2b")}

Policy(allow, deny, images) ==
    [allow |-> allow, deny |-> deny, imageAllow |-> {}, imageDeny |-> images]

MCHandwritten ==
    {Policy({}, {}, MCImages),
     Policy({Plain("web")}, {[ref |-> "web", dressed |-> TRUE]}, {RedisLatest}),
     Policy({[ref |-> "web", dressed |-> TRUE], Plain("1a2b")}, {Plain("3c4d")}, {})}

MCTemplates == {NoPolicy}

MCCommands ==
    {[kind |-> k, targets |-> t] : k \in {"allow", "deny"}, t \in {{Web}, {Web, Db}}}
        \cup {[kind |-> "image", image |-> RedisLatest], [kind |-> "init", template |-> NoPolicy]}

Symmetry == Permutations({e1, e2})
=============================================================================
