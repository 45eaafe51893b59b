------------------------- MODULE MCProviderEvidence --------------------------
\* Instances of ProviderEvidence for TLC.
EXTENDS ProviderEvidence, TLC

\* Two merges: each may be authorised beforehand, the second may be observed
\* afterwards.
TwoMerges ==
    {[kind |-> "external", from |-> 0, to |-> 1],
     [kind |-> "external", from |-> 1, to |-> 2],
     [kind |-> "observed", from |-> 1, to |-> 2]}

NoAmendment == {}
=============================================================================
