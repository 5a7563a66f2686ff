----------------------------- MODULE Assertions -----------------------------
(***************************************************************************)
(* The assertions of a test body that are more than one call to AWS:       *)
(* AssertIdempotent and AssertIdempotentApply, which run Terraform several *)
(* times and count what its plans show, and tags.PropagatesFromRoot, which *)
(* compares many resources with one baseline.                              *)
(***************************************************************************)
EXTENDS Naturals, FiniteSets

CONSTANTS
  Declared,  \* the resources of the module under test
  Arns,      \* the resources a tag assertion may name
  Keys,      \* tag keys
  Values,    \* tag values
  Empty,     \* the empty string
  NoPtr      \* a nil pointer in an answer of the SDK

(* What resource_changes[].change.actions can be; <<>> is a nil change.    *)
Creates  == {<<"create">>}
Updates  == {<<"update">>}
Deletes  == {<<"delete">>}
Replaces == {<<"delete", "create">>, <<"create", "delete">>}
Actions  == {<<>>, <<"no-op">>, <<"read">>, <<"forget">>}
              \cup Creates \cup Updates \cup Deletes \cup Replaces

(* What GetResources may answer.                                           *)
Tags     == [key : Keys \cup {NoPtr}, value : Values \cup {NoPtr}]
Baselines == UNION {[K -> Values] : K \in SUBSET Keys}

ASSUME AssertionsAssumption ==
  /\ IsFiniteSet(Declared)
  /\ Empty \in Values /\ NoPtr \notin Keys \cup Values \cup Arns

VARIABLES
  drift,      \* [Declared -> Actions]: what terraform plan would show now
  planned,    \* PlanResult.Changes of the last plan
  asserting,  \* where the idempotency assertion under way is
  verdict,    \* what the last assertion said: "none", "green", "red"
  looked      \* the last look at AWS or at a plan's JSON, else NoCall

assertionVars == <<drift, planned, asserting, verdict, looked>>

NoCall == [kind |-> "none"]

---------------------------------------------------------------------------
Showing(shapes) == Cardinality({r \in Declared : drift[r] \in shapes})

(* Mutant: a replacement is counted nowhere.                               *)
CountPlainChanges ==
  [Add |-> Showing(Creates), Change |-> Showing(Updates), Destroy |-> Showing(Deletes)]

(* parsePlanChanges over the plan's resource changes.                      *)
ParsePlanChanges ==
  [Add     |-> Showing(Creates \cup Replaces),
   Change  |-> Showing(Updates),
   Destroy |-> Showing(Deletes \cup Replaces)]

NoChanges  == [Add |-> 0, Change |-> 0, Destroy |-> 0]
Changes(c) == c.Add + c.Change + c.Destroy > 0

AssertionsInit ==
  /\ drift \in [Declared -> Creates]
  /\ planned = NoChanges
  /\ asserting = "no"
  /\ verdict = "none"
  /\ looked = NoCall

(* PlanContext: init, plan, show, parsePlanChanges.  The two assertions    *)
(* and a body's own Plan differ in what they do with it.                   *)
PlanFor(from, to) ==
  /\ asserting = from
  /\ asserting' = to
  /\ planned' = ParsePlanChanges
  /\ verdict' = "none"
  /\ looked' = NoCall
  /\ UNCHANGED drift

(* ApplyContext.  What a plan shows afterwards is up to the module: all    *)
(* clean, the same drift again, or one that only a second apply brings up. *)
ApplyFor(from, to) ==
  /\ asserting = from
  /\ asserting' = to
  /\ drift' \in [Declared -> Actions]
  /\ verdict' = "none"
  /\ looked' = NoCall
  /\ UNCHANGED planned

(* The comparison after each plan: Errorf, done, or on to the apply.       *)
Judge ==
  /\ asserting \in {"plan", "first plan", "second plan"}
  /\ asserting' = IF asserting = "first plan" /\ ~Changes(planned) THEN "apply" ELSE "no"
  /\ verdict' = IF Changes(planned) THEN "red"
                ELSE IF asserting = "first plan" THEN "none" ELSE "green"
  /\ UNCHANGED <<drift, planned, looked>>

---------------------------------------------------------------------------
(* indexByARN: entries without an ARN are skipped, tags without a key too; *)
(* a tag without a value has the empty one.  mappings is the answer: a     *)
(* function from the ARNs it names to sets of tags.                        *)
Text(value) == IF value = NoPtr THEN Empty ELSE value

IndexByARN(mappings) ==
  [arn \in DOMAIN mappings \ {NoPtr} |->
     [key \in {t.key : t \in mappings[arn]} \ {NoPtr} |->
        Text((CHOOSE t \in mappings[arn] : t.key = key).value)]]

(* diffTags: one problem for a resource that is not there, else one for    *)
(* each key that is missing or has another value.                          *)
DiffTags(baseline, arns, got) ==
  {<<arn>> : arn \in arns \ DOMAIN got} \cup
  UNION {{<<arn, key>> : key \in {k \in DOMAIN baseline :
            k \notin DOMAIN got[arn] \/ got[arn][k] # baseline[k]}}
         : arn \in arns \cap DOMAIN got}

(* Mutant: resources that were not returned are passed over.               *)
PropagatesOnReturned(baseline, arns, mappings) ==
  DiffTags(baseline, arns \cap DOMAIN mappings, IndexByARN(mappings))

(* What PropagatesFromRootContext reports, which passes if that is nothing *)
(* at all: no problem without a baseline, one without ARNs.                *)
PropagatesFromRoot(baseline, arns, mappings) ==
  IF DOMAIN baseline = {} THEN {}
  ELSE IF arns = {} THEN {<<>>}
  ELSE DiffTags(baseline, arns, IndexByARN(mappings))

AssertTags(baseline, arns, mappings) ==
  /\ asserting = "no"
  /\ looked' = [kind |-> "tags", baseline |-> baseline, arns |-> arns, mappings |-> mappings,
                problems |-> PropagatesFromRoot(baseline, arns, mappings)]
  /\ verdict' = IF looked'.problems = {} THEN "green" ELSE "red"
  /\ UNCHANGED <<drift, planned, asserting>>

---------------------------------------------------------------------------
(* Properties.                                                             *)

(* The assertions' variables keep their shape.                             *)
AssertionsTypeOK ==
  /\ drift \in [Declared -> Actions]
  /\ planned \in [Add : Nat, Change : Nat, Destroy : Nat]
  /\ asserting \in {"no", "plan", "first plan", "apply", "second plan due", "second plan"}
  /\ verdict \in {"none", "green", "red"}

(* Terraform would create, change or destroy something.                    *)
Drifts == \E r \in Declared : \E i \in DOMAIN drift[r] :
            drift[r][i] \in {"create", "update", "delete"}

(* An idempotency assertion is green exactly if the module, as it stands   *)
(* when the assertion returns, has nothing left to create, change or       *)
(* destroy; for the double-apply form that is after its second apply       *)
(* (libtftest.go:240-248, 264-272).                                        *)
VerdictIsTrue ==
  looked = NoCall => /\ verdict = "green" => ~Drifts
                     /\ verdict = "red" => Drifts

(* A tag assertion is green exactly if every resource carries every tag of *)
(* the baseline with its value, and a red one names every gap in one go    *)
(* (tags.go:16-31): the resource, or the resource and the key.             *)
Carries(mappings, arn, key, value) ==
  arn \in DOMAIN mappings /\ \E t \in mappings[arn] : t.key = key /\ Text(t.value) = value

EveryGapIsReported ==
  looked.kind = "tags" =>
    \A arn \in looked.arns, key \in DOMAIN looked.baseline :
      Carries(looked.mappings, arn, key, looked.baseline[key])
      <=> looked.problems \cap {<<arn>>, <<arn, key>>} = {}
=============================================================================
