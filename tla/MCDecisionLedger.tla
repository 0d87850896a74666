-------------------------- MODULE MCDecisionLedger --------------------------
(***************************************************************************)
(* Instances of DecisionLedger: a fraud and a legitimate snapshot, the     *)
(* latter of a large amount, and two reviewers.                            *)
(***************************************************************************)
EXTENDS DecisionLedger, TLC

CONSTANTS f1, l1

AllSnapshots == {f1, l1}
FraudSnapshots == {f1}
LargeSnapshots == {l1}

Answer(d, s, l) == [decision |-> d, sure |-> s, labelled |-> l]

\* One answer for each tier, and one the validator refuses.
TeamAnswers ==
    {Answer("ALLOW", TRUE, TRUE), Answer("BLOCK", FALSE, TRUE),
     Answer("ESCALATE", FALSE, TRUE), Answer("BLOCK", TRUE, FALSE)}

\* Reviewers are interchangeable.
ReviewerSymmetry == Permutations(Reviewers)
=============================================================================
