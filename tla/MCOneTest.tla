------------------------------ MODULE MCOneTest ------------------------------
(* Small instances of OneTest for TLC.  Each case varies one thing: where  *)
(* the container comes from and how it starts, what the module's tree      *)
(* looks like, what its plans show, what its tags are.                     *)
EXTENDS OneTest

CONSTANTS t1, proxy, p1, s3, ecs, h1, h2, root, sub, ext, f, l1, l2, r1, r2,
          a1, a2, k1, k2, v1, empty, g1, g2

MCOrder == <<l1, sub, f, l2>>

PlainTree ==
  [parent |-> [n \in {sub, f, l1, l2} |-> IF n = f THEN sub ELSE root],
   target |-> [l \in {l1, l2} |-> IF l = l1 THEN ext ELSE f]]

PlainCfg == [edition |-> "auto", image |-> Nil, authToken |-> FALSE, hooks |-> {}]

Plain == [env |-> [image |-> Nil, token |-> FALSE], cfg |-> PlainCfg, tree |-> PlainTree,
          shared |-> None, reuse |-> ReusedCtr, override |-> None,
          shapes |-> {<<"no-op">>}, tagCalls |-> {}, probes |-> FALSE, plans |-> {}]

MCStarts ==
  {[Plain EXCEPT !.env = e, !.cfg = c, !.reuse = None] : e \in Envs,
     c \in {x \in Configs : ~x.authToken}}
MCSources ==
  {[Plain EXCEPT !.shared = s, !.reuse = r, !.override = u] :
     s \in {SharedCtr}, r \in {None, ReusedCtr}, u \in {None, proxy}}
MCTrees  == {[Plain EXCEPT !.tree = t] : t \in Trees}
MCPlans  == {[Plain EXCEPT !.shapes = Actions]}

(* The answers GetResources can give, each key once per resource: entries  *)
(* without an ARN, a key or a value as well, but not in every combination. *)
OneOfEach(S) == \A t, u \in S : t.key = u.key => t = u
FullTags     == {S \in SUBSET [key : Keys, value : Values] : OneOfEach(S)}
OddTags      == {S \in SUBSET Tags : OneOfEach(S)}
Answers      == [{a1} -> OddTags] \cup [{a1, NoPtr} -> FullTags] \cup [{a1, a2} -> FullTags]

MCBaselines  == {b \in Baselines : \A k \in DOMAIN b : b[k] = IF k = k1 THEN v1 ELSE empty}

MCTags ==
  {[Plain EXCEPT !.tagCalls = {c}] :
     c \in [baseline : MCBaselines, arns : SUBSET Arns, mappings : Answers]}

(* Every answer to the single calls, with and without a Pro token.         *)
MCProbes == {[Plain EXCEPT !.env.token = b, !.probes = TRUE] : b \in BOOLEAN}

(* A resource of a plan and a policy beside it; a name matters to an inline *)
(* policy only, and a child module's resources are all the same.           *)
MCPlanned ==
  {p \in PlanResources :
     /\ p.name \in {"plain", "empty", "absent"}
     /\ p.name # "plain" => p.type = "aws_iam_role_policy"
     /\ p.type = "other" \/ p.module = "child" \/ p.name # "plain" => p.doc \in {"json", "bad"}}
MCBeside == {p \in MCPlanned : p.type = "aws_iam_policy" /\ p.doc \in {"json", "bad"}}
MCPlanFiles ==
  {[Plain EXCEPT !.plans = {[r \in {r1, r2} |-> IF r = r1 THEN p ELSE q]}] :
     p \in MCPlanned, q \in MCBeside}

MCCases == MCStarts \cup MCSources \cup MCTrees \cup MCPlans \cup MCTags \cup MCProbes
             \cup MCPlanFiles

(* One directory with one link in it.                                      *)
MCLinkOrder == <<sub, l1>>
MCLinks == {[Plain EXCEPT !.tree = t] : t \in Trees}
==============================================================================
