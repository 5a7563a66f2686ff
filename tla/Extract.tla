------------------------------- MODULE Extract -------------------------------
(***************************************************************************)
(* assert/snapshot: ExtractIAMPolicies and ExtractResourceAttribute, which *)
(* take policy documents out of the JSON of a plan.  A resource has one    *)
(* field that may hold a document ("doc": assume_role_policy, policy or    *)
(* policy_arn) and a name; a string is told by what it is as JSON.         *)
(***************************************************************************)
EXTENDS Assertions, Sequences

(* The address of a resource has a dot in it.                              *)
ASSUME ExtractAssumption == "error" \notin Declared

PolicyTypes == {"aws_iam_role", "aws_iam_role_policy", "aws_iam_policy"}
Attachment  == "aws_iam_role_policy_attachment"

(* "json" begins with a brace or a bracket and parses, "scalar" parses all *)
(* the same; "bad" begins like JSON and does not parse, "plain" neither.   *)
Strings == {"json", "scalar", "bad", "plain", "empty"}
Held    == Strings \cup {"absent", "list", "object"}

PlanResources ==
  [type : PolicyTypes \cup {Attachment, "other"}, module : {"root", "child"},
   name : Held, doc : Held]
PlanFiles == [Declared -> PlanResources]

IsJSON(s)        == s \in {"json", "scalar"}
LooksLikeJSON(s) == s \in {"json", "bad"}
Error            == [error |-> TRUE]

(* The bytes returned: normal JSON, a Go value marshalled, or as they are. *)
Normal(s) == IF IsJSON(s) THEN [text |-> s, form |-> "normal"] ELSE Error
Quoted(v) == [text |-> v, form |-> "quoted"]
Bare(s)   == [text |-> s, form |-> "bare"]

Root(plan) == {r \in Declared : plan[r].module = "root"}

(* The resources that get a slot: those of the root module whose document  *)
(* the plan knows; an inline policy needs a name too.                      *)
HasSlot(p) ==
  \/ p.type \in {"aws_iam_role", "aws_iam_policy"} /\ p.doc \in Strings
  \/ p.type = "aws_iam_role_policy" /\ {p.name, p.doc} \subseteq Strings /\ p.name # "empty"
  \/ p.type = Attachment /\ p.doc \in Strings \ {"empty"}

Slot(p) == IF p.type = Attachment THEN Bare(p.doc) ELSE Normal(p.doc)

(* Mutant: a document that does not parse has no slot.                     *)
DropMalformed(plan) ==
  [r \in {s \in Root(plan) : HasSlot(plan[s]) /\ Slot(plan[s]) # Error} |-> Slot(plan[r])]

(* One document that does not parse fails the whole call.                  *)
ExtractIAMPolicies(plan) ==
  LET slots == {r \in Root(plan) : HasSlot(plan[r])}
  IN  IF \E r \in slots : Slot(plan[r]) = Error THEN Error
      ELSE [r \in slots |-> Slot(plan[r])]

(* A path is <<"doc">> or goes on into it; only an object has something    *)
(* there, a document.  A leaf that looks like JSON is normalised.          *)
ExtractResourceAttribute(plan, address, path) ==
  LET doc  == plan[address].doc
      leaf == IF Len(path) = 1 THEN doc ELSE IF doc = "object" THEN "json" ELSE "absent"
  IN  IF address \notin Root(plan) \/ leaf = "absent" THEN Error
      ELSE IF LooksLikeJSON(leaf) THEN Normal(leaf) ELSE Quoted(leaf)

Paths == {<<"doc">>, <<"doc", "sub">>}

ExtractFrom(plan) ==
  /\ asserting = "no"
  /\ looked' = [kind |-> "extract", plan |-> plan, policies |-> ExtractIAMPolicies(plan),
                attributes |-> [a \in Declared \X Paths |->
                                  ExtractResourceAttribute(plan, a[1], a[2])]]
  /\ verdict' = "none"
  /\ UNCHANGED <<drift, planned, asserting>>

---------------------------------------------------------------------------
(* Properties.                                                             *)

(* The two helpers agree on a plan: what either returns is JSON, but for   *)
(* the ARN of an attachment; a document is the same bytes by both; and     *)
(* ExtractIAMPolicies leaves out no document the root module's plan knows, *)
(* unless one of them is not JSON (extract.go:29-77, 85-128).              *)
ExtractsAgree ==
  looked.kind = "extract" =>
    LET plan == looked.plan
        known == {r \in Root(plan) : plan[r].type \in PolicyTypes /\ plan[r].doc \in Strings
                    /\ (plan[r].type = "aws_iam_role_policy" => plan[r].name \in Strings \ {"empty"})}
    IN  /\ looked.policies = Error <=> \E r \in known : ~IsJSON(plan[r].doc)
        /\ looked.policies # Error =>
             \A r \in known : /\ r \in DOMAIN looked.policies
                              /\ LooksLikeJSON(plan[r].doc)
                                 => looked.policies[r] = looked.attributes[<<r, <<"doc">>>>]
        /\ \A a \in DOMAIN looked.attributes :
             looked.attributes[a] # Error => looked.attributes[a].form # "bare"
==============================================================================
