-------------------------------- MODULE Probes --------------------------------
(***************************************************************************)
(* assert/s3, dynamodb, iam, lambda and ssm: assertions that make one call *)
(* through an awsx client and look at its answer.  What they do to the     *)
(* test is the sequence of calls they would make on tb if none of them     *)
(* ended it, with "panic" where the code panics; testing.T and             *)
(* testfake.FakeTB differ in how far they let it go.                       *)
(***************************************************************************)
EXTENDS Assertions, Sequences, FiniteSetsExt

CONSTANTS
  Flags,     \* of a public access block
  Key, Wanted  \* what the caller asks for: tag key; value or algorithm

ASSUME ProbesAssumption ==
  /\ Key \in Keys \ {Empty} /\ Wanted \in Values
  /\ IsFiniteSet(Flags)

Existence == {"BucketExists", "TableExists", "FunctionExists", "ParameterExists"}
ProOnly   == {"RoleExists", "RoleHasInlinePolicy"}
Problem(bad) == IF bad THEN 1 ELSE 0

(* The number of Errorf for an answer without an error.                    *)
BucketHasEncryption(algorithms) ==
  Problem(algorithms = NoPtr \/ Wanted \notin algorithms)

BucketHasVersioning(status) == Problem(status # "Enabled")

BucketBlocksPublicAccess(config) ==
  IF config = NoPtr THEN 1 ELSE Cardinality({f \in Flags : config[f] # TRUE})

(* The first tag with the key decides.                                     *)
BucketHasTag(tagSet) ==
  LET hits == {i \in DOMAIN tagSet : Text(tagSet[i].key) = Key}
  IN  Problem(hits = {} \/ Text(tagSet[Min(hits)].value) # Wanted)


(* Mutant: the token is asked for after the call.                          *)
RequireProLate(of, token, errors) ==
  errors \o IF of \in ProOnly /\ ~token THEN <<"Skip">> ELSE <<>>

(* iam's assertions begin with RequirePro.                                 *)
Tells(of, token, errors) ==
  (IF of \in ProOnly /\ ~token THEN <<"Skip">> ELSE <<>>) \o errors

Errorfs(n) == [i \in 1 .. n |-> "Errorf"]

(* Not a number: the code reads out.Parameter.Value whatever it got.       *)
ParameterHasValue(parameter) ==
  IF parameter = NoPtr THEN <<"panic">>
  ELSE Errorfs(Problem(Text(parameter.value) # Wanted))

---------------------------------------------------------------------------
(* testing.T: Fatalf and Skip end the calling goroutine, as a panic does.  *)
Stops == {"Fatalf", "Skip", "panic"}
Made(calls) ==
  {i \in DOMAIN calls : \A j \in DOMAIN calls : j < i => calls[j] \notin Stops}

(* What calls, those at the places is of a sequence, have left in tb.      *)
Left(calls, is) ==
  LET called == {calls[i] : i \in is}
  IN  [errored |-> "Errorf" \in called, fatalled |-> "Fatalf" \in called,
       skipped |-> "Skip" \in called, panicked |-> "panic" \in called,
       cleanups |-> Cardinality({i \in is : calls[i] = "Cleanup"})]

T(calls) == Left(calls, Made(calls))

(* FakeTB records every call and never ends its caller; nothing is called  *)
(* after a panic.                                                          *)
FakeTB(calls) == Left(calls, DOMAIN calls)

(* A test that panics fails before its callbacks run.                      *)
Failed(tb) == tb.errored \/ tb.fatalled \/ tb.panicked
Ends(tb)   == tb.fatalled \/ tb.skipped \/ tb.panicked

---------------------------------------------------------------------------
Looks(of, token, answer, calls) ==
  /\ asserting = "no"
  /\ looked' = [kind |-> "probe", of |-> of, token |-> token, answer |-> answer,
                calls |-> calls]
  /\ verdict' = "none"
  /\ UNCHANGED <<drift, planned, asserting>>

Answered(of, token, answer, errors) ==
  Looks(of, token, <<answer>>, Tells(of, token, Errorfs(errors)))

(* GetParameterOutput.Parameter, and its Value, are pointers.              *)
Parameters == {NoPtr} \cup [value : Values \cup {NoPtr}]

(* The call returned an error: Errorf and nothing more.                    *)
CallError(token) ==
  \E of \in Existence \cup ProOnly \cup
       {"BucketHasEncryption", "BucketHasVersioning", "BucketBlocksPublicAccess",
        "BucketHasTag", "ParameterHasValue"} :
    Looks(of, token, <<>>, Tells(of, token, Errorfs(1)))

There(of, token) == Answered(of, token, "there", 0)

DynamoDBProbe(token) == There("TableExists", token)
LambdaProbe(token)   == There("FunctionExists", token)
IAMProbe(token)      == \E of \in ProOnly : There(of, token)

S3Probe(token) ==
  \/ There("BucketExists", token)
  \/ \E a \in {NoPtr} \cup SUBSET (Values \cup {NoPtr}) :
       Answered("BucketHasEncryption", token, a, BucketHasEncryption(a))
  \/ \E a \in {"Enabled", "Suspended", ""} :
       Answered("BucketHasVersioning", token, a, BucketHasVersioning(a))
  \/ \E a \in {NoPtr} \cup [Flags -> BOOLEAN \cup {NoPtr}] :
       Answered("BucketBlocksPublicAccess", token, a, BucketBlocksPublicAccess(a))
  \/ \E a \in UNION {[1 .. n -> Tags] : n \in 0 .. 2} :
       /\ Len(a) = 2 => a[1].key # a[2].key
       /\ Answered("BucketHasTag", token, a, BucketHasTag(a))

SSMProbe(token) ==
  \/ There("ParameterExists", token)
  \/ \E a \in Parameters :
       Looks("ParameterHasValue", token, <<a>>,
             Tells("ParameterHasValue", token, ParameterHasValue(a)))

Probe(token) ==
  \/ CallError(token)
  \/ S3Probe(token) \/ DynamoDBProbe(token) \/ IAMProbe(token) \/ LambdaProbe(token)
  \/ SSMProbe(token)

(* A fixture whose put failed: Fatalf, and, on a tb that goes on, Cleanup. *)
SeedFails(token) == Looks("Seed", token, <<>>, <<"Fatalf", "Cleanup">>)

---------------------------------------------------------------------------
(* Properties.                                                             *)

Probed == looked.kind = "probe"

(* What an assertion claims of an answer.                                  *)
Claim(of, answer) ==
  CASE of = "BucketHasEncryption" -> answer # NoPtr /\ Wanted \in answer
    [] of = "BucketHasVersioning" -> answer = "Enabled"
    [] of = "BucketBlocksPublicAccess" ->
         answer # NoPtr /\ \A f \in Flags : answer[f] = TRUE
    [] of = "BucketHasTag" ->
         \E i \in DOMAIN answer : answer[i].key = Key /\ Text(answer[i].value) = Wanted
    [] of = "ParameterHasValue" -> answer # NoPtr /\ Text(answer.value) = Wanted
    [] OTHER -> TRUE

(* A test goes on, still green, after one of these assertions exactly if   *)
(* AWS answered and what it answered is what the assertion claims; without *)
(* a Pro token an iam assertion skips the test and never fails it, however *)
(* LocalStack answers (s3.go:35-158, ssm.go:34-50, iam.go:19 and 44).  An  *)
(* answer ends the test in one case only: GetParameter's without a         *)
(* parameter, which panics (ssm.go:47).  The unit tests, which put a       *)
(* FakeTB in the place of T, see the same failures unless the assertion    *)
(* skipped; a seed that fails leaves no callback on T though it leaves one *)
(* on FakeTB (testfake.go:60-113).                                         *)
ProbeIsTrue ==
  Probed =>
    LET t == T(looked.calls)  fake == FakeTB(looked.calls)
        true == looked.answer # <<>> /\ Claim(looked.of, looked.answer[1])
        noParameter == looked.of = "ParameterHasValue" /\ looked.answer = <<NoPtr>>
    IN  IF looked.of = "Seed"
        THEN Ends(t) /\ Failed(t) /\ t.cleanups = 0 /\ Failed(fake) /\ fake.cleanups = 1
        ELSE IF looked.of \in ProOnly /\ ~looked.token
        THEN t.skipped /\ ~Failed(t) /\ fake.skipped
        ELSE (Ends(t) <=> noParameter) /\ (~Failed(t) <=> true) /\ fake = t
=============================================================================
