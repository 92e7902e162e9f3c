--------------------------- MODULE MCAlertDelivery ---------------------------
EXTENDS AlertDelivery

\* A route for every problem, with recoveries.
RouteTo(C, repeat) ==
    [enabled |-> TRUE, min |-> 1, resolved |-> TRUE, repeat |-> repeat,
     problems |-> Problems, channels |-> C]

RoutesPlain  == {{RouteTo(Channels, FALSE)}}
SelectsAll   == [q \in Silences |-> Problems]

\* What the outbox says about a notice is what happened to it: polls, restarts,
\* failed writes and trimming never make the receiver get the same change of an
\* alert twice (only an operator's retry may); confirmed refusals are repeated
\* up to the limit of attempts, however often the process restarts or the outbox
\* cannot be saved; and what is being sent is on disk as a claim, so that
\* whenever the process dies the next one knows that the outcome is uncertain.
OutboxIsHonest == AtMostOneCopy /\ AttemptsAreBounded /\ ClaimIsDurable

\* The changes of one alert are sent to a channel in the order in which they
\* happened, although refused ones are tried again later. And a delivery that
\* failed, whose outcome is uncertain or that is being sent is never forgotten,
\* an outstanding one only if the tick that trims it found it out of date: not
\* by trimming, a failed write, a restart or new settings.
OutboxIsOrderly == [][ChangesInOrder /\ NothingForgotten]_vars
==============================================================================
