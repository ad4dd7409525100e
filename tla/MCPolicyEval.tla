---------------------------- MODULE MCPolicyEval ----------------------------
(* Instances of PolicyEval: a few policies, paths and images that differ in *)
(* what the verdict depends on.                                             *)
EXTENDS PolicyEval

Path(comps) == [absolute |-> TRUE, comps |-> comps]
Image(parts, tag, digest) == [parts |-> parts, tag |-> tag, digest |-> digest]

Redis == Image(<<"redis">>, Nothing, Nothing)
RedisLatest == Image(<<"docker.io", "library", "redis">>, "latest", Nothing)
RedisPinned == Image(<<"redis">>, Nothing, "sha256")
UserRedis == Image(<<"bitnami", "redis">>, "7", Nothing)
UserRedisFull == Image(<<"docker.io", "bitnami", "redis">>, "7", Nothing)
OtherRegistry == Image(<<"ghcr.io", "redis">>, "7", Nothing)
LocalRegistry == Image(<<"localhost:5000", "redis">>, Nothing, Nothing)

MCImages == {Redis, RedisLatest, RedisPinned, UserRedis, UserRedisFull, OtherRegistry, LocalRegistry}

MCPaths ==
    {[absolute |-> b, comps |-> c] : b \in BOOLEAN,
        c \in BoundedSeq({"workspace", "etc", "..", "."}, 3)}

Binds == {{}, {Path(<<"workspace">>)}, {Path(<<"workspace", "etc">>), Path(<<"etc", "..", "workspace", ".", "workspace">>)}}
ImageLists == {{}, {Redis}, {UserRedisFull, LocalRegistry}}

Dev == {[ref |-> "dev", dressed |-> FALSE]}

MCPolicies ==
    {[binds |-> b, imageAllow |-> a, imageDeny |-> d, allow |-> {}, deny |-> {}] :
        b \in Binds, a \in ImageLists, d \in {{}, {RedisLatest}, {UserRedis}}}
    \cup {[binds |-> {}, imageAllow |-> {}, imageDeny |-> {}, allow |-> Dev, deny |-> d] : d \in {{}, Dev}}

Container(id, name, managed, reusable) ==
    [id |-> id, name |-> name, managed |-> managed, reusable |-> reusable, hosts |-> {"0.0.0.0"}]

MCBackends ==
    {{Container("1a", "web", TRUE, FALSE), Container("2b", "dev", FALSE, FALSE),
      Container("3c", "reused", FALSE, TRUE), Container("4d", "other", FALSE, FALSE)},
     {Container("1a", "dev", TRUE, TRUE), Container("5e", "json", FALSE, FALSE)}}

Payload(p, m, d, c, b, o, i) ==
    [privileged |-> p, modes |-> m, devices |-> d, caps |-> c, binds |-> b, mounts |-> o, image |-> i]

Session == [head |-> "session", clean |-> TRUE, rest |-> ""]

Request(method, path, payload) ==
    [method |-> method, path |-> path, session |-> Session, payload |-> payload]

Create(payload) == Request("POST", <<"containers", "create">>, payload)

Ends == {"json", "logs", "start", "stop", "wait", "exec", "archive", "kill"}

\* Paths on both sides of every edge of the endpoint table.
Paths ==
    {<<>>, <<"_ping">>, <<"version">>, <<"info">>, <<"events">>, <<"v1.41">>,
     <<"networks", "create">>, <<"images", "json">>, <<"images", "redis", "json">>,
     <<"images", "bitnami", "redis", "json">>, <<"images", "redis", "history">>,
     <<"containers">>, Listing, <<"containers", "web">>, <<"containers", "dev", "exec", "json">>}
    \cup {<<"containers", c, e>> : c \in {"1a", "dev", "3c", "other", "gone"}, e \in Ends}
    \cup {<<"exec", "web", e>> : e \in Ends}

Routed ==
    {[Request(m, p, Nothing) EXCEPT !.session = s] :
        m \in {"GET", "POST", "PUT", "DELETE", "HEAD"},
        p \in Paths \cup {<<"v1.41">> \o p : p \in Paths} \cup {<<"v1.41", "v1">> \o Listing},
        s \in {Session, NoHeader, [head |-> "long", clean |-> TRUE, rest |-> "more"],
               [head |-> "a b", clean |-> FALSE, rest |-> ""]}}

\* Every combination of broken and kept rules with one path, and every image.
MCRequests ==
    {Create(Payload(p, m, d, c, {}, o, i)) :
        p \in BOOLEAN, m \in {{}, {"bridge"}, {"bridge", "host"}}, d \in {{}, {"dev"}}, c \in {{}, {"cap"}},
        o \in {{}, {Nothing}}, i \in {Redis}}
    \cup {Create(Payload(FALSE, {}, {}, {}, {b}, {}, Redis)) : b \in MCPaths}
    \cup {Create(Payload(FALSE, {}, {}, {}, {}, {b}, Redis)) : b \in MCPaths}
    \cup {Create(Payload(FALSE, {}, {}, {}, {}, {}, i)) : i \in MCImages}
    \cup {Request("POST", <<"images", "create">>, i) : i \in MCImages}
    \cup {Create(Nothing), Request("POST", <<"images", "create">>, Nothing)}
    \cup Routed

\* The bind allowlist the policy check warns about.
RootPolicies == {[binds |-> {Path(<<>>)}, imageAllow |-> {}, imageDeny |-> {}, allow |-> {}, deny |-> {}]}

RootRequests ==
    {Create(Payload(FALSE, {}, {}, {}, {b}, {}, Redis)) :
        b \in {path \in MCPaths : path.absolute}}
=============================================================================
