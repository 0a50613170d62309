------------------------ MODULE MCReviewCoordinator ------------------------
\* Instance of ReviewCoordinator: two lanes, the high one polled first, and
\* one opinion for each outcome of a round under the default policy.
EXTENDS ReviewCoordinator

CONSTANTS high, low, i1, i2

Names == <<high, low>>

Priorities == [i \in Item |-> IF i = i1 THEN high ELSE low]

Opinions == {[score |-> 9, verdict |-> "Approve"],
             [score |-> 7, verdict |-> "ChangesRequested"],
             [score |-> 3, verdict |-> "Approve"]}
=============================================================================
