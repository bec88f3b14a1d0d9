---------------------------- MODULE MCZplCompile -----------------------------
(***************************************************************************)
(* Rule sets for a service that deploys and one that is read by path:     *)
(* texts that go on from one of nine beginnings by two of the statements   *)
(* below, and the calls that tell them apart.                              *)
(***************************************************************************)
EXTENDS ZplLint

MClower == ("Alice" :> "alice") @@ ("Bob" :> "bob") @@ ("Engineers" :> "engineers") @@
           ("Canary" :> "canary") @@ ("Carol" :> "carol") @@ ("Deploy" :> "deploy") @@
           ("/V1" :> "/v1") @@ ("Read" :> "read") @@ ("Bob Smith" :> "bob smith")

MCtoken == ("Bob Smith" :> "Bob") @@ ("bob smith" :> "bob")

MCsegments == ("/v1" :> <<"v1">>) @@ ("/v1/" :> <<"v1", "">>) @@
              ("/V1" :> <<"V1">>) @@ ("/v1?q" :> <<"v1?q">>) @@
              ("/v1/a" :> <<"v1", "a">>)

MCresource == ("/v1?q" :> "/v1")

MCalphabetical == ("anything" :> 1) @@ ("approve" :> 2) @@ ("audited" :> 3) @@ ("bot" :> 4) @@
                  ("canary" :> 5) @@ ("deploy" :> 6) @@ ("engineer" :> 7) @@ ("oncall" :> 8) @@
                  ("retired" :> 9) @@ ("staff" :> 10) @@ ("visitor" :> 11) @@ ("web" :> 12)

Define(name, aka, parent, attrs) ==
    [kind |-> "define", ends |-> "period", lines |-> 1, name |-> name, aka |-> aka,
     parent |-> parent, attrs |-> attrs]
Declare(name, class, attrs) ==
    [kind |-> "declare", ends |-> "period", lines |-> 1, name |-> name, class |-> class,
     attrs |-> attrs]
The(class, attrs) == [class |-> class, attrs |-> attrs]
Rule(kind, subject, accessor, verb, object, server, condition) ==
    [kind |-> kind, ends |-> "period", lines |-> 1, subject |-> subject, accessor |-> accessor,
     verb |-> verb, object |-> object, server |-> server, condition |-> condition]
Broken(first, ends, lines) == [kind |-> "broken", first |-> first, ends |-> ends, lines |-> lines]
Open(s) == [s EXCEPT !.ends = "open"]
Unended(s) == [s EXCEPT !.ends = "word"]
Behind(s) == [s EXCEPT !.lines = 0]

engineer == Define("engineer", "Engineers", "user", "name" :> List({"Alice", "bob"}))
oncall   == Define("oncall", None, "engineer", "name" :> One("bob"))
staff    == Define("staff", None, "user", "dept" :> One("ops"))
roleOnly == Define("staff", None, "user", "role" :> One("dev"))
ring     == Define("engineer", None, "oncall", <<>>)
deploy   == Define("deploy", None, "service", "tool" :> One("push"))
again    == Define("Deploy", None, "service", "tool" :> List({"push", "pull"}))
more     == Define("deploy", None, "service", "env" :> One("prod"))
canary   == Define("canary", None, "deploy", "env" :> One(None))
retired  == Define("retired", None, "deploy", "tool" :> List({}))
anything == Behind(Define("anything", None, "service", "env" :> List({None})))
audited  == Define("audited", None, "service", ("tool" :> One("push")) @@ ("env" :> One("prod")))
web      == Define("web", None, "server", "name" :> One("api"))
visitor  == Define("visitor", None, "users", <<>>)
bot      == Define("bot", None, "endpoint", <<>>)
approve  == Define("approve", None, "verb", <<>>)

carol    == Declare("Carol", "oncall", "dept" :> One("ops"))
carol2   == Declare("carol", "user", "dept" :> One("dev"))

mayDeploy == Rule("allow", The("engineers", <<>>), None, "access", The("deploy", <<>>),
                  The("web", <<>>), None)
byDay     == Rule("allow", The("user", "dept" :> One("ops")), None, "access",
                  The("deploy", <<>>), The("server", <<>>), {"day"})
byRole    == Rule("allow", The("user", "role" :> One("Alice")), The("endpoint", "name" :> Star),
                  "access", The("deploy", <<>>), None, {"night"})
mayRead   == Rule("allow", The("users", <<>>), None, "Read", The("services", "path" :> Star),
                  None, None)
noPath    == Rule("never", The("users", <<>>), None, "read", The("service", "path" :> One("/v1/")),
                  None, None)
noCanary  == Rule("never", The("user", <<>>), None, "access", The("Canary", <<>>), None, None)
noAudited == Rule("never", The("Engineers", <<>>), None, "access", The("audited", <<>>), None, None)
sometimes == Rule("never", The("users", <<>>), None, "access", The("deploy", <<>>), None, {"day"})
forStaff  == Rule("allow", The("staff", <<>>), None, "access", The("services", <<>>), None, None)
noApprove == Rule("never", The("users", <<>>), None, "approve", The("services", <<>>), None, None)
noPush    == Rule("never", The("engineers", <<>>), None, "access", The("deploy", <<>>), None, None)
mayAll    == Open(Rule("allow", The("users", <<>>), None, "access", The(None, <<>>), None, None))
noStaff   == Unended(Rule("never", The("staff", <<>>), None, "access", The("web", <<>>), None, None))
half      == Open(Declare("eve", None, <<>>))
notCEL    == Rule("allow", The("users", <<>>), None, "access", The("deploy", <<>>), None, BadCEL)

MCStatement == {engineer, oncall, staff, roleOnly, ring, deploy, again, more, canary, retired,
                anything, audited, web, visitor, bot, approve, carol, carol2, mayDeploy, byDay, byRole, mayRead,
                noPath, noCanary, noAudited, noPush, noStaff, mayAll, half, forStaff, sometimes,
                notCEL, noApprove, Broken("allow", "period", 2), Broken("never", "word", 1),
                Broken("forbid", "period", 0)}

MCStartText == {<<deploy, web, engineer, mayDeploy, audited>>,
                <<deploy, forStaff, byDay, canary, noCanary>>,
                <<mayRead, byRole, again, web, engineer>>,
                <<engineer, deploy, mayDeploy, web, noAudited>>,
                <<deploy, canary, oncall, carol, byDay>>,
                <<engineer, mayRead, noPath, byRole, carol>>,
                <<mayDeploy, noCanary, deploy, engineer, web>>,
                <<deploy, more, engineer, oncall, noCanary>>,
                <<deploy, retired, engineer, forStaff, mayAll>>}

ToolCall(user, args, roles, context) ==
    [user |-> user, agent |-> "bot", service |-> "api", verb |-> "access",
     tool |-> "push", args |-> args, roles |-> roles, context |-> context]
Get(user, path, verb) ==
    [user |-> user, agent |-> "bot", service |-> "www", verb |-> verb,
     tool |-> path, args |-> "path" :> One(path), roles |-> None, context |-> "day"]

MCCall == {ToolCall(u, "env" :> One("prod"), None, x) : u \in {"Alice", "Bob Smith"}, x \in {"day"}} \cup
          {ToolCall("carol", <<>>, None, x) : x \in {"day", "night"}} \cup
          {ToolCall("eve", <<>>, r, "night") : r \in {None, One("dev"), List({"alice", "dev"})}} \cup
          {[ToolCall("alice", <<>>, None, "day") EXCEPT !.service = None]} \cup
          {Get("eve", p, v) : p \in {"/v1", "/v1?q", "/V1"}, v \in {"read"}}
=============================================================================
