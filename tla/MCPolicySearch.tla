---------------------------- MODULE MCPolicySearch ----------------------------
(***************************************************************************)
(* Instances of PolicySearch: a policy with three versions, one of them    *)
(* without a title, and a case study with two; sections of up to three     *)
(* paragraphs around a limit of eight words; two evaluations on one        *)
(* thread.                                                                 *)
(***************************************************************************)
EXTENDS PolicySearch, TLC

CONSTANTS i1, i2, policy, case, c1

OneIngest == {i1}
TwoIngests == {i1, i2}
TwoFiles == <<policy, case>>

\* Every section of at most three paragraphs: budgets from five words to none.
SmallSections ==
    [heading : 0 .. 5, paras : UNION {[1 .. n -> 1 .. 7] : n \in 0 .. 3}]

Section(h, ps) == [heading |-> h, paras |-> ps]
Document(n, t, ss) == [id |-> n, titled |-> t, sections |-> ss]

PolicyVersions ==
    {Document(1, TRUE, <<Section(1, <<2, 4>>)>>),
     Document(2, TRUE, <<Section(1, <<2>>), Section(1, <<1>>)>>),
     Document(3, FALSE, <<Section(1, <<1>>)>>)}

CaseVersions ==
    {Document(4, TRUE, <<Section(0, <<>>)>>), Document(5, TRUE, <<Section(4, <<1>>)>>)}

SmallDocuments == [f \in {policy, case} |-> IF f = policy THEN PolicyVersions ELSE CaseVersions]

UsedThread == <<c1, c1>>
=============================================================================
