------------------------- MODULE AlertDeliveryProofs -------------------------
(***************************************************************************)
(* What the outbox of the alert center promises, for any finite numbers of *)
(* problems and channels and any numbers of alerts, changes, reminders,    *)
(* failures, restarts and retries: no change of an alert reaches a channel *)
(* twice or out of order, attempts are bounded, a send is on disk before   *)
(* it happens, and nothing that still matters is forgotten.                *)
(*                                                                         *)
(* Memory and disk are two copies of the state, and after a failed write   *)
(* either may be the older one.  So the invariant is a statement about any *)
(* copy (Sound), which says what that copy knows of what was really sent:  *)
(* the attempts it records are not fewer than the sends, what it holds to  *)
(* be outstanding has reached nobody, and no delivery that is gone will be *)
(* queued again, because its slot is used or its change is past (Past).    *)
(* Every write keeps it in both copies (Written), and trimming gives up    *)
(* only finished deliveries and resolved alerts (Trims).                   *)
(***************************************************************************)
EXTENDS MCAlertDelivery, FiniteSetTheorems, WellFoundedInduction, TLAPS

\* The hypothesis: there are finitely many problems and channels.
Bounded == IsFiniteSet(Problems) /\ IsFiniteSet(Channels)

\* The outbox is within its limit.
Roomy(s) == ~(Cardinality(Held(s)) > MaxDeliveries)

States == {"none", "sending"} \cup Outstanding \cup Finished \cup Stuck
Pairs == AlertIds \X Channels

\* The shapes of an alert, of a delivery and of a copy of the state.
IsAlert(a) ==
    /\ a = [state |-> a.state, severity |-> a.severity, trans |-> a.trans, stale |-> a.stale,
            event |-> a.event, changed |-> a.changed]
    /\ a.trans \in Nat
IsDelivery(x) ==
    /\ x = [state |-> x.state, attempts |-> x.attempts, gen |-> x.gen, shows |-> x.shows,
            wait |-> x.wait, silenced |-> x.silenced, created |-> x.created]
    /\ x.state \in States /\ x.attempts \in Nat
IsState(s) ==
    /\ s = [alerts |-> s.alerts, channels |-> s.channels, routes |-> s.routes,
            silences |-> s.silences, deliveries |-> s.deliveries, marks |-> s.marks,
            migrated |-> s.migrated]
    /\ s.alerts = [a \in AlertIds |-> s.alerts[a]] /\ \A a \in AlertIds : IsAlert(s.alerts[a])
    /\ s.deliveries = [d \in Ids |-> s.deliveries[d]] /\ \A d \in Ids : IsDelivery(s.deliveries[d])
    /\ s.marks = [m \in Pairs |-> s.marks[m]]

\* No tick will queue d again when it is gone: its slot is used, or its alert is gone, has
\* changed since, or was marked as dispatched.
Past(s, d, n, b) ==
    /\ d[4] <= n
    /\ d[4] = 0 => /\ d[1][2] <= b[d[1][1]]
                   /\ \/ s.alerts[d[1]].state = "none"
                      \/ s.alerts[d[1]].trans > d[3]
                      \/ s.alerts[d[1]].trans = d[3] /\ s.marks[<<d[1], d[2]>>] = d[3]

\* What the copy s of the state knows of d, that was sent tr[d] times and received cp[d] times.
Fits(s, d, tr, cp, n, b) ==
    LET x == s.deliveries[d]
    IN  /\ x.state # "none" \/ tr[d] > 0 => Past(s, d, n, b)
        /\ x.state # "none" => tr[d] <= x.attempts /\ x.attempts <= MaxAttempts
        /\ x.state \in Outstanding => x.attempts < MaxAttempts /\ cp[d] = 0

\* No change of an alert was sent that s does not know.
Ordered(s, m, of, b) ==
    /\ s.alerts[m[1]].state # "none" => of[m] <= s.alerts[m[1]].trans
    /\ m[1][2] > b[m[1][1]] => of[m] = 0

\* b counts the alerts of each problem that were ever raised.
Raised(s, a, b) == s.alerts[a].state # "none" => a[2] <= b[a[1]]

Sound(s, tr, cp, of, n, b) ==
    /\ \A a \in AlertIds : Raised(s, a, b)
    /\ \A d \in Ids : Fits(s, d, tr, cp, n, b)
    /\ \A m \in Pairs : Ordered(s, m, of, b)

Counted(tr, cp, of, n, b) ==
    /\ tr \in [Ids -> Nat] /\ cp \in [Ids -> Nat] /\ of \in [Pairs -> Nat]
    /\ n \in Nat /\ b \in [Problems -> Nat]
    /\ \A d \in Ids : tr[d] <= MaxAttempts /\ cp[d] <= 1 /\ (cp[d] > 0 => tr[d] > 0)

\* What is being sent is a claim in memory and on disk.
InFlight ==
    flight # None => /\ up /\ st.migrated /\ flight \in Ids /\ tries[flight] > 0
                     /\ st.deliveries[flight].state = "sending"
                     /\ disk.deliveries[flight].state = "sending"
                     /\ ~reached => copies[flight] = 0

OutboxInv ==
    /\ IsState(st) /\ IsState(disk)
    /\ Counted(tries, copies, offered, serial, born)
    /\ Sound(disk, tries, copies, offered, serial, born)
    /\ up => /\ Sound(st, tries, copies, offered, serial, born)
             /\ Roomy(st)
             /\ ~degraded => disk = st
    /\ InFlight

-----------------------------------------------------------------------------
(* Facts about ids, and about the shapes. *)

\* The parts of an id.
LEMMA IdParts ==
  ASSUME NEW d \in Ids
  PROVE  /\ d[4] \in Nat
         /\ d[4] = 0 => /\ d[1] \in AlertIds /\ d[2] \in Channels /\ d[3] \in Nat /\ d[3] > 0
                        /\ <<d[1], d[2]>> \in Pairs /\ d[1][1] \in Problems /\ d[1][2] \in Nat
         /\ d = <<d[1], d[2], d[3], d[4]>>
<1>1. MaxTransitions \in Nat /\ MaxSerials \in Nat BY AlertConstants
<1>2. CASE d \in AlertIds \X Channels \X (1..MaxTransitions) \X (0..MaxSerials)
  BY <1>1, <1>2, AlertConstants DEF AlertIds, Pairs
<1>3. CASE d \in {TestAlert} \X Channels \X {0} \X (1..MaxSerials) BY <1>1, <1>3
<1> QED BY <1>2, <1>3 DEF Ids

\* The id of a delivery for the pair m.
LEMMA MadeId ==
  ASSUME NEW m \in Pairs, NEW t \in Nat, NEW k \in Nat, NEW d \in Ids, d = <<m[1], m[2], t, k>>
  PROVE  d[1] = m[1] /\ d[2] = m[2] /\ d[3] = t /\ d[4] = k /\ <<d[1], d[2]>> = m /\ d[1] \in AlertIds
  BY DEF Pairs

\* The kinds of delivery states.
LEMMA NamedStates ==
  /\ Outstanding \subseteq States /\ Finished \subseteq States /\ Stuck \subseteq States
  /\ Outstanding \cap Finished = {} /\ Outstanding \cap Stuck = {} /\ Finished \cap Stuck = {}
  /\ \A x \in {"none", "sending"} : x \notin Outstanding \cup Finished \cup Stuck
  BY DEF States, Outstanding, Finished, Stuck

\* The state before anything is stored.
LEMMA EmptyFits ==
  /\ IsState(EmptyState) /\ \A d \in Ids : EmptyState.deliveries[d].state = "none"
  /\ \A a \in AlertIds : EmptyState.alerts[a].state = "none"
<1>1. IsAlert(NoAlert) /\ IsDelivery(NoDelivery) BY DEF IsAlert, IsDelivery, NoAlert, NoDelivery, States
<1> QED BY <1>1 DEF EmptyState, IsState, Pairs, NoAlert, NoDelivery

\* Replacing parts of a state.
Parts(A, D, M) == /\ A = [a \in AlertIds |-> A[a]] /\ \A a \in AlertIds : IsAlert(A[a])
                  /\ D = [d \in Ids |-> D[d]] /\ \A d \in Ids : IsDelivery(D[d])
                  /\ M = [m \in Pairs |-> M[m]]

\* A state put together from its parts has the shape.
LEMMA Composed ==
  ASSUME NEW A, NEW D, NEW M, Parts(A, D, M), NEW c, NEW r, NEW q, NEW g, NEW s,
         s = [alerts |-> A, channels |-> c, routes |-> r, silences |-> q, deliveries |-> D,
              marks |-> M, migrated |-> g]
  PROVE  /\ IsState(s) /\ s.alerts = A /\ s.deliveries = D /\ s.marks = M
         /\ s.channels = c /\ s.routes = r /\ s.silences = q /\ s.migrated = g
<1>1. /\ s.alerts = A /\ s.deliveries = D /\ s.marks = M
      /\ s.channels = c /\ s.routes = r /\ s.silences = q /\ s.migrated = g
  OBVIOUS
<1>2. s = [alerts |-> s.alerts, channels |-> s.channels, routes |-> s.routes,
            silences |-> s.silences, deliveries |-> s.deliveries, marks |-> s.marks,
            migrated |-> s.migrated]
  BY <1>1
<1>3. IsState(s) BY <1>1, <1>2 DEF IsState, Parts
<1> QED BY <1>1, <1>3

-----------------------------------------------------------------------------
(* From one state to the next. *)

\* What t may make of the alert a of s: an alert that was given up stays so, and one that is
\* there changes forwards; a new one was not counted before.
Forward(s, t, a, b, b2) ==
    t.alerts[a].state # "none" => \/ s.alerts[a].state # "none" /\ t.alerts[a].trans >= s.alerts[a].trans
                                  \/ a[2] > b[a[1]] /\ a[2] <= b2[a[1]]

\* ... of a mark ...
Marked(s, t, m) ==
    t.alerts[m[1]].state # "none" => t.marks[m] = s.marks[m] \/ t.marks[m] = t.alerts[m[1]].trans

\* ... and of a delivery: it may be forgotten, move on, or be a new one.
Moves(s, t, d, tr, n, b) ==
    \/ t.deliveries[d].state = "none"
    \/ /\ s.deliveries[d].state # "none"
       /\ t.deliveries[d].attempts = s.deliveries[d].attempts
       /\ t.deliveries[d].state \in Outstanding => s.deliveries[d].state \in Outstanding
    \/ t.deliveries[d].attempts = 0 /\ tr[d] = 0 /\ Past(t, d, n, b)

Carries(s, t, tr, b, n2, b2) ==
    /\ \A a \in AlertIds : Forward(s, t, a, b, b2)
    /\ \A m \in Pairs : Marked(s, t, m)
    /\ \A d \in Ids : Moves(s, t, d, tr, n2, b2)

\* What is past stays past.
LEMMA PastCarries ==
  ASSUME NEW s, NEW t, IsState(s), IsState(t), NEW d \in Ids, NEW n \in Nat, NEW n2 \in Nat, n <= n2,
         NEW b \in [Problems -> Nat], NEW b2 \in [Problems -> Nat], \A p \in Problems : b[p] <= b2[p],
         \A a \in AlertIds : Forward(s, t, a, b, b2),
         \A m \in Pairs : Marked(s, t, m), Past(s, d, n, b)
  PROVE  Past(t, d, n2, b2)
<1>1. d[4] <= n2 BY IdParts DEF Past
<1>2. ASSUME d[4] = 0
      PROVE  /\ d[1][2] <= b2[d[1][1]]
             /\ \/ t.alerts[d[1]].state = "none"
                \/ t.alerts[d[1]].trans > d[3]
                \/ t.alerts[d[1]].trans = d[3] /\ t.marks[<<d[1], d[2]>>] = d[3]
  <2> DEFINE a == d[1]
             m == <<d[1], d[2]>>
  <2>1. /\ a \in AlertIds /\ m \in Pairs /\ m[1] = a /\ a[1] \in Problems /\ a[2] \in Nat /\ d[3] \in Nat
    BY <1>2, IdParts
  <2>2. /\ a[2] <= b[a[1]] /\ b[a[1]] \in Nat /\ b2[a[1]] \in Nat /\ b[a[1]] <= b2[a[1]]
    BY <1>2, <2>1 DEF Past
  <2>3. a[2] <= b2[a[1]] BY <2>1, <2>2
  <2>4. s.alerts[a].trans \in Nat /\ t.alerts[a].trans \in Nat BY <2>1 DEF IsState, IsAlert
  <2>5. \/ s.alerts[a].state = "none"
        \/ s.alerts[a].trans > d[3]
        \/ s.alerts[a].trans = d[3] /\ s.marks[m] = d[3]
    BY <1>2 DEF Past
  <2>6. ASSUME t.alerts[a].state # "none"
        PROVE  t.alerts[a].trans > d[3] \/ (t.alerts[a].trans = d[3] /\ t.marks[m] = d[3])
    <3>1. s.alerts[a].state # "none" /\ t.alerts[a].trans >= s.alerts[a].trans
      BY <2>1, <2>2, <2>6 DEF Forward
    <3>2. t.marks[m] = s.marks[m] \/ t.marks[m] = t.alerts[a].trans BY <2>1, <2>6 DEF Marked
    <3> QED BY <2>1, <2>4, <2>5, <3>1, <3>2
  <2> QED BY <2>3, <2>6
<1> QED BY <1>1, <1>2 DEF Past

\* A state that follows from a sound one in this way is sound.
LEMMA SoundCarries ==
  ASSUME NEW s, NEW t, IsState(s), IsState(t), NEW tr, NEW cp, NEW of,
         NEW n, NEW n2 \in Nat, n <= n2,
         NEW b, NEW b2 \in [Problems -> Nat], \A p \in Problems : b[p] <= b2[p],
         Counted(tr, cp, of, n, b), Sound(s, tr, cp, of, n, b), Carries(s, t, tr, b, n2, b2)
  PROVE  Sound(t, tr, cp, of, n2, b2)
<1>0. /\ n \in Nat /\ b \in [Problems -> Nat] /\ of \in [Pairs -> Nat]
      /\ tr \in [Ids -> Nat] /\ cp \in [Ids -> Nat]
      /\ \A d \in Ids : tr[d] <= MaxAttempts /\ (cp[d] > 0 => tr[d] > 0)
  BY DEF Counted
<1>1. ASSUME NEW d \in Ids PROVE Fits(t, d, tr, cp, n2, b2)
  <2> DEFINE x == s.deliveries[d]
             y == t.deliveries[d]
  <2>0. /\ IsDelivery(x) /\ IsDelivery(y) /\ Fits(s, d, tr, cp, n, b) /\ Moves(s, t, d, tr, n2, b2)
        /\ tr[d] \in Nat /\ cp[d] \in Nat /\ (cp[d] > 0 => tr[d] > 0) /\ MaxAttempts \in Nat \ {0}
    BY <1>0, AlertConstants DEF IsState, Sound, Carries
  <2>1. Past(s, d, n, b) => Past(t, d, n2, b2)
    BY <1>0, PastCarries DEF Carries
  <2>2. CASE y.state = "none" BY <2>0, <2>1, <2>2, NamedStates DEF Fits
  <2>3. CASE /\ x.state # "none" /\ y.attempts = x.attempts
             /\ y.state \in Outstanding => x.state \in Outstanding
    BY <2>0, <2>1, <2>3 DEF Fits
  <2>4. CASE y.attempts = 0 /\ tr[d] = 0 /\ Past(t, d, n2, b2) BY <2>0, <2>4 DEF Fits
  <2> QED BY <2>0, <2>2, <2>3, <2>4 DEF Moves
<1>2. ASSUME NEW m \in Pairs PROVE Ordered(t, m, of, b2)
  <2>1. /\ m[1] \in AlertIds /\ m[1][1] \in Problems /\ m[1][2] \in Nat
    BY AlertConstants DEF Pairs, AlertIds
  <2>2. /\ Ordered(s, m, of, b) /\ Forward(s, t, m[1], b, b2) /\ of[m] \in Nat
        /\ s.alerts[m[1]].trans \in Nat /\ t.alerts[m[1]].trans \in Nat
        /\ b[m[1][1]] \in Nat /\ b2[m[1][1]] \in Nat /\ b[m[1][1]] <= b2[m[1][1]]
    BY <1>0, <2>1 DEF Sound, Carries, IsState, IsAlert
  <2> QED BY <2>1, <2>2 DEF Ordered, Forward
<1>3. ASSUME NEW a \in AlertIds PROVE Raised(t, a, b2)
  <2>1. a[1] \in Problems /\ a[2] \in Nat BY AlertConstants DEF AlertIds
  <2>2. /\ b[a[1]] \in Nat /\ b2[a[1]] \in Nat /\ b[a[1]] <= b2[a[1]]
        /\ Raised(s, a, b) /\ Forward(s, t, a, b, b2)
    BY <1>0, <2>1 DEF Sound, Carries
  <2> QED BY <2>1, <2>2 DEF Raised, Forward
<1> QED BY <1>1, <1>2, <1>3 DEF Sound

-----------------------------------------------------------------------------
(* Storage. *)

\* There are finitely many deliveries.
LEMMA IdsAreFinite == Bounded => IsFiniteSet(Ids)
<1> SUFFICES ASSUME Bounded PROVE IsFiniteSet(Ids) OBVIOUS
<1>1. IsFiniteSet(1..MaxAlerts) /\ IsFiniteSet(1..MaxTransitions) /\ IsFiniteSet(0..MaxSerials)
      /\ IsFiniteSet(1..MaxSerials)
  BY FS_Interval, AlertConstants
<1>2. IsFiniteSet({TestAlert}) /\ IsFiniteSet({0}) BY FS_Singleton
<1>3. IsFiniteSet(AlertIds) BY <1>1, FS_Product DEF AlertIds, Bounded
<1> DEFINE S == AlertIds \X Channels \X (1..MaxTransitions) \X (0..MaxSerials)
           T == {TestAlert} \X Channels \X {0} \X (1..MaxSerials)
<1>4. ASSUME NEW A, NEW B, NEW C, NEW D, IsFiniteSet(A), IsFiniteSet(B), IsFiniteSet(C), IsFiniteSet(D)
      PROVE  IsFiniteSet(A \X B \X C \X D)
  <2> DEFINE P == (A \X B) \X (C \X D)
             Q == A \X B \X C \X D
             f == [x \in P |-> <<x[1][1], x[1][2], x[2][1], x[2][2]>>]
  <2>1. IsFiniteSet(P) BY <1>4, FS_Product
  <2>2. f \in [P -> Q] OBVIOUS
  <2>3. ASSUME NEW y \in Q PROVE \E x \in P : f[x] = y
    <3>1. /\ y = <<y[1], y[2], y[3], y[4]>> /\ y[1] \in A /\ y[2] \in B /\ y[3] \in C /\ y[4] \in D
      BY <2>3
    <3> DEFINE x == <<<<y[1], y[2]>>, <<y[3], y[4]>>>>
    <3>2. x \in P BY <3>1
    <3>3. f[x] = y BY <3>1, <3>2
    <3> QED BY <3>2, <3>3
  <2>4. f \in Surjection(P, Q) BY <2>2, <2>3 DEF Surjection
  <2> QED BY <2>1, <2>4, FS_Surjection
<1>5. IsFiniteSet(S) /\ IsFiniteSet(T) BY <1>1, <1>2, <1>3, <1>4 DEF Bounded
<1> QED BY <1>5, FS_Union DEF Ids

\* Trimming gives up alerts and finished deliveries, and none of these below the limit.
LEMMA Trims ==
  ASSUME NEW s, IsState(s), NEW t \in Trimmed(s)
  PROVE  /\ IsState(t)
         /\ \A a \in AlertIds : t.alerts[a] = s.alerts[a] \/ t.alerts[a].state = "none"
         /\ \A m \in Pairs : t.alerts[m[1]].state # "none" => t.marks[m] = s.marks[m]
         /\ \A d \in Ids : \/ t.deliveries[d] = s.deliveries[d]
                           \/ t.deliveries[d] = NoDelivery /\ s.deliveries[d].state \in Finished
         /\ t.migrated = s.migrated
         /\ Bounded /\ Roomy(s) => t.deliveries = s.deliveries
<1> DEFINE spare == Least(Cardinality(Trimmable(s)), Excess(Cardinality(Held(s)), MaxDeliveries))
           NA(A) == [a \in AlertIds |-> IF a \in A THEN NoAlert ELSE s.alerts[a]]
           NM(A) == [m \in Pairs |->
                       IF m[1] \in A \/ s.alerts[m[1]].state = "none" THEN 0 ELSE s.marks[m]]
           ND(D) == [d \in Ids |-> IF d \in D THEN NoDelivery ELSE s.deliveries[d]]
<1>1. \E A, D : D \subseteq Trimmable(s) /\ Cardinality(D) = spare /\ t = Without(s, A, D)
  <2> DEFINE resolved == {a \in AlertIds : s.alerts[a].state = "resolved"}
             OA == Oldest(resolved, Excess(Cardinality(resolved), MaxResolved),
                          [a \in resolved |-> s.alerts[a].changed])
             OD == Oldest(Trimmable(s), spare, [d \in Trimmable(s) |-> s.deliveries[d].created])
  <2>1. t \in UNION {{Without(s, A, D) : D \in OD} : A \in OA} BY DEF Trimmed
  <2>2. PICK A \in OA, D \in OD : t = Without(s, A, D)
    <3> HIDE DEF OA, OD
    <3> QED BY <2>1
  <2>3. D \subseteq Trimmable(s) /\ Cardinality(D) = spare
    <3> HIDE DEF spare
    <3> QED BY <2>2 DEF Oldest
  <2> QED BY <2>2, <2>3
<1>2. PICK A, D : D \subseteq Trimmable(s) /\ Cardinality(D) = spare /\ t = Without(s, A, D)
  BY <1>1
<1>3. IsAlert(NoAlert) /\ IsDelivery(NoDelivery) BY DEF IsAlert, IsDelivery, NoAlert, NoDelivery, States
<1>4. Parts(NA(A), ND(D), NM(A))
  <2>1. NA(A) = [a \in AlertIds |-> NA(A)[a]] /\ \A a \in AlertIds : IsAlert(NA(A)[a])
    BY <1>3 DEF IsState
  <2>2. ND(D) = [d \in Ids |-> ND(D)[d]] /\ \A d \in Ids : IsDelivery(ND(D)[d])
    BY <1>3 DEF IsState
  <2>3. NM(A) = [m \in Pairs |-> NM(A)[m]] OBVIOUS
  <2> QED BY <2>1, <2>2, <2>3 DEF Parts
<1>11. t = [s EXCEPT !.alerts = NA(A), !.marks = NM(A), !.deliveries = ND(D)]
  BY <1>2 DEF Without, Pairs
<1>5. t = [alerts |-> NA(A), channels |-> s.channels, routes |-> s.routes, silences |-> s.silences,
           deliveries |-> ND(D), marks |-> NM(A), migrated |-> s.migrated]
  <2> HIDE DEF NA, NM, ND
  <2> QED BY <1>11 DEF IsState
<1>6. /\ IsState(t) /\ t.alerts = NA(A) /\ t.deliveries = ND(D) /\ t.marks = NM(A)
      /\ t.migrated = s.migrated
  <2> HIDE DEF NA, NM, ND
  <2> QED BY <1>4, <1>5, Composed
<1>7. \A a \in AlertIds : t.alerts[a] = s.alerts[a] \/ t.alerts[a].state = "none"
  BY <1>6 DEF NoAlert
<1>8. ASSUME NEW m \in Pairs, t.alerts[m[1]].state # "none" PROVE t.marks[m] = s.marks[m]
  <2>1. m[1] \in AlertIds BY DEF Pairs
  <2>2. m[1] \notin A /\ s.alerts[m[1]].state # "none" BY <1>6, <1>8, <2>1 DEF NoAlert
  <2> QED BY <1>6, <2>2
<1>9. \A d \in Ids : \/ t.deliveries[d] = s.deliveries[d]
                     \/ t.deliveries[d] = NoDelivery /\ s.deliveries[d].state \in Finished
  BY <1>2, <1>6 DEF Trimmable
<1>10. ASSUME Bounded, Roomy(s) PROVE t.deliveries = s.deliveries
  <2>1. IsFiniteSet(Ids) BY <1>10, IdsAreFinite
  <2>2. IsFiniteSet(Trimmable(s)) /\ IsFiniteSet(D)
    BY <1>2, <2>1, FS_Subset DEF Trimmable
  <2>3. Cardinality(Trimmable(s)) \in Nat BY <2>2, FS_CardinalityType
  <2>4. spare = 0 BY <1>10, <2>3 DEF Least, Excess, Roomy
  <2>5. D = {} BY <1>2, <2>2, <2>4, FS_EmptySet
  <2> QED BY <1>6, <2>5 DEF IsState
<1> QED BY <1>6, <1>7, <1>8, <1>9, <1>10

\* What persist leaves in memory and on disk; both are the state if the center is healthy.
LEMMA Persists ==
  ASSUME NEW s, IsState(s), NEW same \in BOOLEAN, NEW ok, persisted(s, same, ok),
         same /\ ~degraded => disk = st
  PROVE  \E t \in Trimmed(s) :
           /\ st' \in {st, t} /\ disk' \in {disk, t}
           /\ ~degraded' => st' = t /\ disk' = t
           /\ Roomy(t) \/ (st' = st /\ disk' = disk /\ degraded' = TRUE)
<1>1. PICK t \in Trimmed(s) :
           \/ TooLarge(t) /\ degraded' = TRUE /\ UNCHANGED <<st, disk, failures>>
           \/ ~TooLarge(t) /\ ~(same /\ ~degraded /\ t = st) /\ put(t, ok)
           \/ ~TooLarge(t) /\ same /\ ~degraded /\ t = st /\ ok
              /\ UNCHANGED <<st, disk, degraded, failures>>
  BY DEF persisted
<1>2. CASE TooLarge(t) /\ degraded' = TRUE /\ UNCHANGED <<st, disk, failures>> BY <1>2
<1>3. CASE ~TooLarge(t) /\ put(t, ok)
  <2>1. Roomy(t) BY <1>3 DEF TooLarge, Roomy
  <2>2. \/ st' = t /\ disk' = t
        \/ disk' \in {disk, t} /\ degraded' = TRUE /\ st' = st
    BY <1>3 DEF put
  <2> QED BY <2>1, <2>2
<1>4. CASE /\ ~TooLarge(t) /\ same /\ ~degraded /\ t = st
           /\ UNCHANGED <<st, disk, degraded, failures>>
  <2>1. Roomy(t) BY <1>4 DEF TooLarge, Roomy
  <2> QED BY <1>4, <2>1
<1> QED BY <1>1, <1>2, <1>3, <1>4

\* Trimming keeps a state sound.
LEMMA TrimmedIsSound ==
  ASSUME NEW s, IsState(s), NEW t \in Trimmed(s), NEW tr, NEW cp, NEW of, NEW n, NEW b,
         Counted(tr, cp, of, n, b), Sound(s, tr, cp, of, n, b)
  PROVE  Sound(t, tr, cp, of, n, b)
<1>1. n \in Nat /\ b \in [Problems -> Nat] BY DEF Counted
<1>2. \A a \in AlertIds : Forward(s, t, a, b, b)
  <2> TAKE a \in AlertIds
  <2>1. t.alerts[a] = s.alerts[a] \/ t.alerts[a].state = "none" BY Trims
  <2>2. s.alerts[a].trans \in Nat BY DEF IsState, IsAlert
  <2> QED BY <2>1, <2>2 DEF Forward
<1>3. \A m \in Pairs : Marked(s, t, m) BY Trims DEF Marked
<1>4. \A d \in Ids : Moves(s, t, d, tr, n, b)
  <2> TAKE d \in Ids
  <2>1. \/ t.deliveries[d] = s.deliveries[d]
        \/ t.deliveries[d] = NoDelivery /\ s.deliveries[d].state \in Finished
    BY Trims
  <2> QED BY <2>1 DEF Moves, NoDelivery
<1>5. Carries(s, t, tr, b, n, b) BY <1>2, <1>3, <1>4 DEF Carries
<1>6. IsState(t) /\ n <= n /\ \A p \in Problems : b[p] <= b[p] BY <1>1, Trims
<1> QED BY <1>1, <1>5, <1>6, SoundCarries

\* What is in memory and on disk after persist.
LEMMA Written ==
  ASSUME NEW s, IsState(s), NEW same \in BOOLEAN, NEW ok, persisted(s, same, ok),
         same /\ ~degraded => disk = st, IsState(st), IsState(disk),
         NEW tr, NEW cp, NEW of, NEW n, NEW b, Counted(tr, cp, of, n, b),
         Sound(s, tr, cp, of, n, b), Sound(disk, tr, cp, of, n, b)
  PROVE  /\ IsState(st') /\ IsState(disk') /\ Sound(disk', tr, cp, of, n, b)
         /\ Sound(st, tr, cp, of, n, b) => Sound(st', tr, cp, of, n, b)
         /\ ~degraded' => Sound(st', tr, cp, of, n, b) /\ disk' = st' /\ Roomy(st')
         /\ Roomy(st) => Roomy(st')
         /\ st.migrated /\ s.migrated => st'.migrated
<1>1. PICK t \in Trimmed(s) :
         /\ st' \in {st, t} /\ disk' \in {disk, t}
         /\ ~degraded' => st' = t /\ disk' = t
         /\ Roomy(t) \/ (st' = st /\ disk' = disk /\ degraded' = TRUE)
  BY Persists
<1>2. IsState(t) /\ t.migrated = s.migrated BY Trims
<1>3. Sound(t, tr, cp, of, n, b) BY TrimmedIsSound
<1> QED BY <1>1, <1>2, <1>3

\* A delivery that s has not finished is as s says wherever it is written.
LEMMA WrittenDelivery ==
  ASSUME NEW s, IsState(s), NEW same \in BOOLEAN, NEW ok, persisted(s, same, ok),
         same /\ ~degraded => disk = st, NEW d \in Ids,
         s.deliveries[d].state \notin Finished \/ (Bounded /\ Roomy(s))
  PROVE  /\ st'.deliveries[d] \in {st.deliveries[d], s.deliveries[d]}
         /\ disk'.deliveries[d] \in {disk.deliveries[d], s.deliveries[d]}
         /\ ~degraded' => /\ st'.deliveries[d] = s.deliveries[d]
                          /\ disk'.deliveries[d] = s.deliveries[d]
<1>1. PICK t \in Trimmed(s) :
         /\ st' \in {st, t} /\ disk' \in {disk, t}
         /\ ~degraded' => st' = t /\ disk' = t
  BY Persists
<1>2. t.deliveries[d] = s.deliveries[d] BY Trims
<1> QED BY <1>1, <1>2

\* Counting more alerts, reminders and tests keeps a state sound.
LEMMA Grows ==
  ASSUME NEW s, IsState(s), NEW tr, NEW cp, NEW of, NEW n, NEW b, Counted(tr, cp, of, n, b),
         Sound(s, tr, cp, of, n, b), NEW n2 \in Nat, n <= n2,
         NEW b2 \in [Problems -> Nat], \A p \in Problems : b[p] <= b2[p]
  PROVE  Sound(s, tr, cp, of, n2, b2)
<1>1. \A a \in AlertIds : Forward(s, s, a, b, b2)
  <2> TAKE a \in AlertIds
  <2>1. s.alerts[a].trans \in Nat BY DEF IsState, IsAlert
  <2> QED BY <2>1 DEF Forward
<1>2. \A m \in Pairs : Marked(s, s, m) BY DEF Marked
<1>3. \A d \in Ids : Moves(s, s, d, tr, n2, b2) BY DEF Moves
<1>4. Carries(s, s, tr, b, n2, b2) BY <1>1, <1>2, <1>3 DEF Carries
<1> QED BY <1>4, SoundCarries

-----------------------------------------------------------------------------
(* Steps that save a state and leave the sends alone. *)

\* Writing a sound state keeps the invariant, if nothing is claimed.
LEMMA Saved ==
  ASSUME OutboxInv, NEW s, IsState(s), NEW same \in BOOLEAN, NEW ok, persisted(s, same, ok),
         same => up, Sound(s, tries, copies, offered, serial', born'),
         serial' \in Nat, serial <= serial', born' \in [Problems -> Nat],
         \A p \in Problems : born[p] <= born'[p],
         UNCHANGED <<flight, reached, tries, copies, offered>>,
         flight # None => s.deliveries[flight].state = "sending",
         st.migrated => s.migrated,
         \/ up /\ up' = up
         \/ flight = None /\ (up' => ~degraded')
  PROVE  OutboxInv'
<1>1. /\ IsState(st) /\ IsState(disk) /\ Counted(tries, copies, offered, serial, born)
      /\ Sound(disk, tries, copies, offered, serial, born)
      /\ up => Sound(st, tries, copies, offered, serial, born) /\ Roomy(st)
      /\ InFlight
  BY DEF OutboxInv
<1>2. same /\ ~degraded => disk = st BY DEF OutboxInv
<1>3. Counted(tries, copies, offered, serial', born') BY <1>1 DEF Counted
<1>4. /\ Sound(disk, tries, copies, offered, serial', born')
      /\ up => Sound(st, tries, copies, offered, serial', born')
  BY <1>1, Grows
<1>5. /\ IsState(st') /\ IsState(disk') /\ Sound(disk', tries, copies, offered, serial', born')
      /\ up => Sound(st', tries, copies, offered, serial', born') /\ Roomy(st')
      /\ ~degraded' => Sound(st', tries, copies, offered, serial', born') /\ disk' = st' /\ Roomy(st')
      /\ st.migrated /\ s.migrated => st'.migrated
  BY <1>1, <1>2, <1>3, <1>4, Written
<1>6. InFlight'
  <2>1. SUFFICES ASSUME flight # None PROVE InFlight' BY DEF InFlight
  <2>2. /\ up /\ st.migrated /\ flight \in Ids /\ tries[flight] > 0
        /\ st.deliveries[flight].state = "sending" /\ disk.deliveries[flight].state = "sending"
        /\ ~reached => copies[flight] = 0
    BY <1>1, <2>1 DEF InFlight
  <2>3. up' BY <2>1, <2>2
  <2>4. s.deliveries[flight].state = "sending" BY <2>1
  <2>5. s.deliveries[flight].state \notin Finished BY <2>4 DEF Finished
  <2>6. /\ st'.deliveries[flight] \in {st.deliveries[flight], s.deliveries[flight]}
        /\ disk'.deliveries[flight] \in {disk.deliveries[flight], s.deliveries[flight]}
    BY <1>2, <2>2, <2>5, WrittenDelivery
  <2>7. st'.deliveries[flight].state = "sending" /\ disk'.deliveries[flight].state = "sending"
    BY <2>2, <2>4, <2>6
  <2> QED BY <1>5, <2>2, <2>3, <2>7 DEF InFlight
<1>7. up' => Sound(st', tries, copies, offered, serial', born') /\ Roomy(st') BY <1>5
<1> QED BY <1>3, <1>5, <1>6, <1>7 DEF OutboxInv

\* What a state that is written while the center is open must keep of the outbox.
Spares(s) ==
    \A d \in Ids :
        st.deliveries[d].state \notin {"none"} \cup Finished
        => /\ s.deliveries[d].state # "none"
           /\ s.deliveries[d].state \in Finished
              => Roomy(s) \/ (st.deliveries[d].state \in Outstanding /\ eligible(st, d) = "drop")

\* Writing such a state forgets nothing.
LEMMA Forgets ==
  ASSUME OutboxInv, Bounded, up, NEW s, IsState(s), NEW same \in BOOLEAN, NEW ok,
         persisted(s, same, ok), Spares(s)
  PROVE  NothingForgotten
<1>1. same /\ ~degraded => disk = st BY DEF OutboxInv
<1>2. SUFFICES ASSUME NEW d \in Ids, st.deliveries[d].state # "none", disk.deliveries[d].state # "none",
                      disk'.deliveries[d].state = "none", st.deliveries[d].state \notin Finished
               PROVE  st.deliveries[d].state \in Outstanding /\ eligible(st, d) = "drop"
  BY DEF NothingForgotten, Held
<1>3. /\ s.deliveries[d].state # "none"
      /\ s.deliveries[d].state \in Finished
         => Roomy(s) \/ (st.deliveries[d].state \in Outstanding /\ eligible(st, d) = "drop")
  BY <1>2 DEF Spares
<1>4. s.deliveries[d].state \in Finished /\ ~Roomy(s)
  <2>1. SUFFICES ASSUME s.deliveries[d].state \notin Finished \/ Roomy(s) PROVE FALSE OBVIOUS
  <2>2. disk'.deliveries[d] \in {disk.deliveries[d], s.deliveries[d]} BY <1>1, <2>1, WrittenDelivery
  <2> QED BY <1>2, <1>3, <2>2
<1> QED BY <1>3, <1>4

-----------------------------------------------------------------------------
(* Queueing and withdrawing. *)

\* What Queued makes of the pairs M.
LEMMA Queues ==
  ASSUME NEW s, IsState(s), NEW M, NEW k
  PROVE  LET t == Queued(s, M, k)
         IN  /\ IsState(t)
             /\ t.alerts = s.alerts /\ t.channels = s.channels /\ t.routes = s.routes
             /\ t.silences = s.silences /\ t.migrated = s.migrated
             /\ \A m \in Pairs : t.marks[m] = IF m \in M THEN s.alerts[m[1]].trans ELSE s.marks[m]
             /\ \A d \in Ids :
                  \/ t.deliveries[d] = s.deliveries[d]
                  \/ /\ s.deliveries[d].state = "none" /\ t.deliveries[d].state = "pending"
                     /\ t.deliveries[d].attempts = 0
                     /\ \E m \in M : d = <<m[1], m[2], s.alerts[m[1]].trans, k>>
<1> DEFINE new == {<<m[1], m[2], s.alerts[m[1]].trans, k>> : m \in M}
           Fresh(d) == [state |-> "pending", attempts |-> 0, gen |-> s.channels[d[2]].gen,
                        shows |-> s.alerts[d[1]].state, wait |-> silenced(s, d[1][1]),
                        silenced |-> silenced(s, d[1][1]), created |-> clock]
           D == [d \in Ids |-> IF d \in new /\ s.deliveries[d].state = "none"
                               THEN Fresh(d) ELSE s.deliveries[d]]
           M2 == [m \in Pairs |-> IF m \in M THEN s.alerts[m[1]].trans ELSE s.marks[m]]
           t == Queued(s, M, k)
<1>1. t = [s EXCEPT !.deliveries = D, !.marks = M2] BY DEF Queued, Pairs
<1>2. ASSUME NEW d \in Ids PROVE IsDelivery(Fresh(d)) BY DEF IsDelivery, States, Outstanding
<1>3. \A d \in Ids : IsDelivery(D[d])
  <2> HIDE DEF Fresh
  <2> QED BY <1>2 DEF IsState
<1>4. D = [d \in Ids |-> D[d]] /\ M2 = [m \in Pairs |-> M2[m]]
  <2> HIDE DEF Fresh
  <2> QED OBVIOUS
<1>5. Parts(s.alerts, D, M2)
  <2> HIDE DEF D, M2
  <2> QED BY <1>3, <1>4 DEF Parts, IsState
<1>6. t = [alerts |-> s.alerts, channels |-> s.channels, routes |-> s.routes,
           silences |-> s.silences, deliveries |-> D, marks |-> M2, migrated |-> s.migrated]
  <2> HIDE DEF D, M2, t
  <2> QED BY <1>1 DEF IsState
<1>7. /\ IsState(t) /\ t.alerts = s.alerts /\ t.deliveries = D /\ t.marks = M2
      /\ t.channels = s.channels /\ t.routes = s.routes /\ t.silences = s.silences
      /\ t.migrated = s.migrated
  <2> HIDE DEF D, M2, t
  <2> QED BY <1>5, <1>6, Composed
<1>8. \A m \in Pairs : t.marks[m] = IF m \in M THEN s.alerts[m[1]].trans ELSE s.marks[m]
  <2> HIDE DEF D, t
  <2> QED BY <1>7
<1>9. ASSUME NEW d \in Ids
      PROVE  \/ t.deliveries[d] = s.deliveries[d]
             \/ /\ s.deliveries[d].state = "none" /\ t.deliveries[d].state = "pending"
                /\ t.deliveries[d].attempts = 0
                /\ \E m \in M : d = <<m[1], m[2], s.alerts[m[1]].trans, k>>
  <2>1. CASE d \in new /\ s.deliveries[d].state = "none"
    <3>1. D[d] = Fresh(d)
      <4> HIDE DEF Fresh, new
      <4> QED BY <2>1
    <3>2. Fresh(d).state = "pending" /\ Fresh(d).attempts = 0 OBVIOUS
    <3>3. t.deliveries[d] = Fresh(d)
      <4> HIDE DEF t, D, Fresh
      <4> QED BY <1>7, <3>1
    <3> HIDE DEF t, D, Fresh
    <3> QED BY <2>1, <3>2, <3>3
  <2>2. CASE ~(d \in new /\ s.deliveries[d].state = "none")
    <3>1. D[d] = s.deliveries[d]
      <4> HIDE DEF Fresh, new
      <4> QED BY <2>2
    <3> HIDE DEF t, D
    <3> QED BY <1>7, <3>1
  <2> QED BY <2>1, <2>2
<1> HIDE DEF t
<1> QED BY <1>7, <1>8, <1>9 DEF t

\* Queueing keeps a state sound, if a first delivery is queued for a transition that is not
\* marked, and another one in a new slot.
LEMMA QueuedIsSound ==
  ASSUME NEW s, IsState(s), NEW M, M \subseteq Pairs, NEW k \in Nat,
         NEW tr, NEW cp, NEW of, NEW n, NEW b, Counted(tr, cp, of, n, b),
         Sound(s, tr, cp, of, n, b), NEW n2 \in Nat, n <= n2, k <= n2,
         \A m \in M : s.alerts[m[1]].state # "none",
         k = 0 => \A m \in M : s.marks[m] # s.alerts[m[1]].trans,
         k > 0 => n < k
  PROVE  Sound(Queued(s, M, k), tr, cp, of, n2, b)
<1> DEFINE t == Queued(s, M, k)
<1>0. /\ n \in Nat /\ b \in [Problems -> Nat] /\ tr \in [Ids -> Nat] BY DEF Counted
<1>1. /\ IsState(t) /\ t.alerts = s.alerts
      /\ \A m \in Pairs : t.marks[m] = IF m \in M THEN s.alerts[m[1]].trans ELSE s.marks[m]
      /\ \A d \in Ids :
            \/ t.deliveries[d] = s.deliveries[d]
            \/ /\ s.deliveries[d].state = "none" /\ t.deliveries[d].state = "pending"
               /\ t.deliveries[d].attempts = 0
               /\ \E m \in M : d = <<m[1], m[2], s.alerts[m[1]].trans, k>>
  BY Queues
<1> HIDE DEF t
<1>2. \A a \in AlertIds : Forward(s, t, a, b, b)
  <2> TAKE a \in AlertIds
  <2>1. s.alerts[a].trans \in Nat BY DEF IsState, IsAlert
  <2> QED BY <1>1, <2>1 DEF Forward
<1>3. \A m \in Pairs : Marked(s, t, m) BY <1>1 DEF Marked
<1>4. ASSUME NEW d \in Ids PROVE Moves(s, t, d, tr, n2, b)
  <2>1. CASE t.deliveries[d] = s.deliveries[d] BY <2>1 DEF Moves
  <2>2. ASSUME s.deliveries[d].state = "none", t.deliveries[d].attempts = 0,
               NEW m \in M, d = <<m[1], m[2], s.alerts[m[1]].trans, k>>
        PROVE  Moves(s, t, d, tr, n2, b)
    <3>1. m \in Pairs /\ m[1] \in AlertIds BY DEF Pairs
    <3>2. s.alerts[m[1]].trans \in Nat BY <3>1 DEF IsState, IsAlert
    <3>3. /\ d[1] = m[1] /\ d[2] = m[2] /\ d[3] = s.alerts[m[1]].trans /\ d[4] = k
          /\ <<d[1], d[2]>> = m /\ d[1] \in AlertIds
      BY <2>2, <3>1, <3>2, MadeId
    <3>4. ~Past(s, d, n, b)
      <4>1. CASE k = 0
        <5>1. s.marks[m] # s.alerts[m[1]].trans /\ s.alerts[m[1]].state # "none" BY <4>1
        <5> QED BY <3>2, <3>3, <4>1, <5>1 DEF Past
      <4>2. CASE k > 0 BY <1>0, <3>3, <4>2 DEF Past
      <4> QED BY <4>1, <4>2
    <3>5. tr[d] = 0
      <4>1. Fits(s, d, tr, cp, n, b) BY DEF Sound
      <4> QED BY <1>0, <3>4, <4>1 DEF Fits
    <3>6. Past(t, d, n2, b)
      <4>1. d[1][2] <= b[d[1][1]] BY <3>3 DEF Sound, Raised
      <4>2. t.marks[m] = d[3] /\ t.alerts[d[1]].trans = d[3] BY <1>1, <3>1, <3>3
      <4> QED BY <3>3, <4>1, <4>2 DEF Past
    <3> QED BY <2>2, <3>5, <3>6 DEF Moves
  <2> QED BY <1>1, <2>1, <2>2
<1>5. Carries(s, t, tr, b, n2, b) BY <1>2, <1>3, <1>4 DEF Carries
<1>6. Sound(t, tr, cp, of, n2, b) BY <1>0, <1>1, <1>5, SoundCarries
<1> QED BY <1>6 DEF t

\* Other changes of deliveries: alerts and marks stay, and no delivery is opened again.
LEMMA MovedIsSound ==
  ASSUME NEW s, NEW t, IsState(s), IsState(t), NEW tr, NEW cp, NEW of, NEW n, NEW b,
         Counted(tr, cp, of, n, b), Sound(s, tr, cp, of, n, b), t.marks = s.marks,
         \A a \in AlertIds : /\ t.alerts[a].state # "none" => s.alerts[a].state # "none"
                             /\ t.alerts[a].trans = s.alerts[a].trans,
         \A d \in Ids : /\ t.deliveries[d].state # "none" => s.deliveries[d].state # "none"
                        /\ t.deliveries[d].attempts = s.deliveries[d].attempts
                        /\ t.deliveries[d].state \in Outstanding => s.deliveries[d].state \in Outstanding
  PROVE  Sound(t, tr, cp, of, n, b)
<1>1. \A a \in AlertIds : Forward(s, t, a, b, b)
  <2> TAKE a \in AlertIds
  <2>1. s.alerts[a].trans \in Nat BY DEF IsState, IsAlert
  <2> QED BY <2>1 DEF Forward
<1>2. \A m \in Pairs : Marked(s, t, m) BY DEF Marked
<1>3. \A d \in Ids : Moves(s, t, d, tr, n, b) BY DEF Moves
<1>4. Carries(s, t, tr, b, n, b) BY <1>1, <1>2, <1>3 DEF Carries
<1>5. n \in Nat /\ n <= n /\ b \in [Problems -> Nat] /\ \A p \in Problems : b[p] <= b[p] BY DEF Counted
<1> QED BY <1>4, <1>5, SoundCarries

-----------------------------------------------------------------------------
(* Changes of a state. *)

\* Other deliveries, or other alerts.
LEMMA Edited ==
  ASSUME NEW s, IsState(s), NEW D, D = [d \in Ids |-> D[d]], \A d \in Ids : IsDelivery(D[d])
  PROVE  LET t == [s EXCEPT !.deliveries = D]
         IN  /\ IsState(t) /\ t.deliveries = D
             /\ t.alerts = s.alerts /\ t.channels = s.channels /\ t.routes = s.routes
             /\ t.silences = s.silences /\ t.marks = s.marks /\ t.migrated = s.migrated
<1> DEFINE t == [s EXCEPT !.deliveries = D]
<1>1. t = [alerts |-> s.alerts, channels |-> s.channels, routes |-> s.routes,
           silences |-> s.silences, deliveries |-> D, marks |-> s.marks, migrated |-> s.migrated]
  BY DEF IsState
<1>2. Parts(s.alerts, D, s.marks) BY DEF Parts, IsState
<1> HIDE DEF t
<1>3. /\ IsState(t) /\ t.deliveries = D
      /\ t.alerts = s.alerts /\ t.channels = s.channels /\ t.routes = s.routes
      /\ t.silences = s.silences /\ t.marks = s.marks /\ t.migrated = s.migrated
  BY <1>1, <1>2, Composed
<1> QED BY <1>3 DEF t

\* A state with other alerts.
LEMMA Observed ==
  ASSUME NEW s, IsState(s), NEW A, A = [a \in AlertIds |-> A[a]], \A a \in AlertIds : IsAlert(A[a])
  PROVE  LET t == [s EXCEPT !.alerts = A]
         IN  /\ IsState(t) /\ t.alerts = A
             /\ t.deliveries = s.deliveries /\ t.channels = s.channels /\ t.routes = s.routes
             /\ t.silences = s.silences /\ t.marks = s.marks /\ t.migrated = s.migrated
<1> DEFINE t == [s EXCEPT !.alerts = A]
<1>1. t = [alerts |-> A, channels |-> s.channels, routes |-> s.routes,
           silences |-> s.silences, deliveries |-> s.deliveries, marks |-> s.marks,
           migrated |-> s.migrated]
  BY DEF IsState
<1>2. Parts(A, s.deliveries, s.marks) BY DEF Parts, IsState
<1> HIDE DEF t
<1>3. /\ IsState(t) /\ t.alerts = A
      /\ t.deliveries = s.deliveries /\ t.channels = s.channels /\ t.routes = s.routes
      /\ t.silences = s.silences /\ t.marks = s.marks /\ t.migrated = s.migrated
  BY <1>1, <1>2, Composed
<1> QED BY <1>3 DEF t

\* Other settings.
LEMMA Configured ==
  ASSUME NEW s, IsState(s), NEW c, NEW r, NEW q, NEW g, NEW t,
         t = [alerts |-> s.alerts, channels |-> c, routes |-> r, silences |-> q,
              deliveries |-> s.deliveries, marks |-> s.marks, migrated |-> g]
  PROVE  /\ IsState(t) /\ t.alerts = s.alerts /\ t.deliveries = s.deliveries
         /\ t.marks = s.marks /\ t.migrated = g
<1>1. Parts(s.alerts, s.deliveries, s.marks) BY DEF Parts, IsState
<1>2. /\ IsState(t) /\ t.alerts = s.alerts /\ t.deliveries = s.deliveries /\ t.marks = s.marks
      /\ t.migrated = g
  BY <1>1, Composed
<1> QED BY <1>2

Fields(x) == [state |-> x.state, attempts |-> x.attempts, gen |-> x.gen, shows |-> x.shows,
              wait |-> x.wait, silenced |-> x.silenced, created |-> x.created]

Restate(x, y) == [x EXCEPT !.state = y, !.silenced = FALSE]
Postpone(s, d) == [s.deliveries[d] EXCEPT !.wait = TRUE, !.silenced = eligible(s, d) = "silenced"]
Release(x) == [x EXCEPT !.wait = FALSE]
Refuse(x) == [x EXCEPT !.state = "retrying", !.silenced = FALSE, !.wait = TRUE]
Take(x) == [x EXCEPT !.state = "sending", !.attempts = @ + 1]
Reopen(x) == [x EXCEPT !.state = "pending", !.attempts = 0, !.wait = FALSE, !.silenced = FALSE]

\* A delivery in another state.
LEMMA Restated ==
  ASSUME NEW x, IsDelivery(x), NEW y \in States
  PROVE  LET u == Restate(x, y)
         IN  IsDelivery(u) /\ u.state = y /\ u.attempts = x.attempts
<1>1. x = Fields(x) /\ x.attempts \in Nat /\ x.state \in States
  BY DEF IsDelivery, Fields
<1>2. ASSUME NEW u, u = Restate(x, y)
      PROVE  IsDelivery(u) /\ u.state = y /\ u.attempts = x.attempts
  <2>1. u = [state |-> y, attempts |-> x.attempts, gen |-> x.gen, shows |-> x.shows,
             wait |-> x.wait, silenced |-> FALSE, created |-> x.created]
    BY <1>1, <1>2 DEF Fields, Restate
  <2> QED BY <1>1, <2>1 DEF IsDelivery, States, Outstanding
<1> QED BY <1>2

\* One that waits, and one that does not.
LEMMA Postponed ==
  ASSUME NEW s, IsState(s), NEW d \in Ids
  PROVE  LET u == Postpone(s, d)
         IN  IsDelivery(u) /\ u.state = s.deliveries[d].state /\ u.attempts = s.deliveries[d].attempts
<1>1. s.deliveries[d] = Fields(s.deliveries[d]) /\ s.deliveries[d].attempts \in Nat /\ s.deliveries[d].state \in States
  BY DEF IsDelivery, Fields, IsState
<1>2. ASSUME NEW u, u = Postpone(s, d)
      PROVE  IsDelivery(u) /\ u.state = s.deliveries[d].state /\ u.attempts = s.deliveries[d].attempts
  <2>1. u = [state |-> s.deliveries[d].state, attempts |-> s.deliveries[d].attempts, gen |-> s.deliveries[d].gen, shows |-> s.deliveries[d].shows,
             wait |-> TRUE, silenced |-> (eligible(s, d) = "silenced"), created |-> s.deliveries[d].created]
    BY <1>1, <1>2 DEF Fields, Postpone
  <2> QED BY <1>1, <2>1 DEF IsDelivery, States, Outstanding
<1> QED BY <1>2

\* A delivery that does not wait any more.
LEMMA Released ==
  ASSUME NEW x, IsDelivery(x)
  PROVE  LET u == Release(x)
         IN  IsDelivery(u) /\ u.state = x.state /\ u.attempts = x.attempts
<1>1. x = Fields(x) /\ x.attempts \in Nat /\ x.state \in States
  BY DEF IsDelivery, Fields
<1>2. ASSUME NEW u, u = Release(x)
      PROVE  IsDelivery(u) /\ u.state = x.state /\ u.attempts = x.attempts
  <2>1. u = [state |-> x.state, attempts |-> x.attempts, gen |-> x.gen, shows |-> x.shows,
             wait |-> FALSE, silenced |-> x.silenced, created |-> x.created]
    BY <1>1, <1>2 DEF Fields, Release
  <2> QED BY <1>1, <2>1 DEF IsDelivery, States, Outstanding
<1> QED BY <1>2

\* One that is tried again later.
LEMMA Refused ==
  ASSUME NEW x, IsDelivery(x)
  PROVE  LET u == Refuse(x)
         IN  IsDelivery(u) /\ u.state = "retrying" /\ u.attempts = x.attempts
<1>1. x = Fields(x) /\ x.attempts \in Nat /\ x.state \in States
  BY DEF IsDelivery, Fields
<1>2. ASSUME NEW u, u = Refuse(x)
      PROVE  IsDelivery(u) /\ u.state = "retrying" /\ u.attempts = x.attempts
  <2>1. u = [state |-> "retrying", attempts |-> x.attempts, gen |-> x.gen, shows |-> x.shows,
             wait |-> TRUE, silenced |-> FALSE, created |-> x.created]
    BY <1>1, <1>2 DEF Fields, Refuse
  <2> QED BY <1>1, <2>1 DEF IsDelivery, States, Outstanding
<1> QED BY <1>2

\* One that is claimed.
LEMMA Taken ==
  ASSUME NEW x, IsDelivery(x)
  PROVE  LET u == Take(x)
         IN  IsDelivery(u) /\ u.state = "sending" /\ u.attempts = x.attempts + 1
<1>1. x = Fields(x) /\ x.attempts \in Nat /\ x.state \in States
  BY DEF IsDelivery, Fields
<1>2. ASSUME NEW u, u = Take(x)
      PROVE  IsDelivery(u) /\ u.state = "sending" /\ u.attempts = x.attempts + 1
  <2>1. u = [state |-> "sending", attempts |-> x.attempts + 1, gen |-> x.gen, shows |-> x.shows,
             wait |-> x.wait, silenced |-> x.silenced, created |-> x.created]
    BY <1>1, <1>2 DEF Fields, Take
  <2> QED BY <1>1, <2>1 DEF IsDelivery, States, Outstanding
<1> QED BY <1>2

\* One that an operator retries.
LEMMA Reopened ==
  ASSUME NEW x, IsDelivery(x)
  PROVE  LET u == Reopen(x)
         IN  IsDelivery(u) /\ u.state = "pending" /\ u.attempts = 0
<1>1. x = Fields(x) /\ x.attempts \in Nat /\ x.state \in States
  BY DEF IsDelivery, Fields
<1>2. ASSUME NEW u, u = Reopen(x)
      PROVE  IsDelivery(u) /\ u.state = "pending" /\ u.attempts = 0
  <2>1. u = [state |-> "pending", attempts |-> 0, gen |-> x.gen, shows |-> x.shows,
             wait |-> FALSE, silenced |-> FALSE, created |-> x.created]
    BY <1>1, <1>2 DEF Fields, Reopen
  <2> QED BY <1>1, <2>1 DEF IsDelivery, States, Outstanding
<1> QED BY <1>2

\* An alert that is stale, or may be.
Mark(x) == [x EXCEPT !.stale = TRUE]
Doubt(x) == [x EXCEPT !.stale = @ \/ x.state = "active"]
\* A stale alert.
LEMMA Marks ==
  ASSUME NEW x, IsAlert(x)
  PROVE  LET u == Mark(x) IN IsAlert(u) /\ u.state = x.state /\ u.trans = x.trans
<1>1. ASSUME NEW u, u = Mark(x)
      PROVE  IsAlert(u) /\ u.state = x.state /\ u.trans = x.trans
  <2>1. u = [state |-> x.state, severity |-> x.severity, trans |-> x.trans, stale |-> TRUE,
             event |-> x.event, changed |-> x.changed]
    BY <1>1 DEF IsAlert, Mark
  <2> QED BY <2>1 DEF IsAlert
<1> QED BY <1>1

\* An alert whose problem may have ended.
LEMMA Doubts ==
  ASSUME NEW x, IsAlert(x)
  PROVE  LET u == Doubt(x) IN IsAlert(u) /\ u.state = x.state /\ u.trans = x.trans
<1>1. ASSUME NEW u, u = Doubt(x)
      PROVE  IsAlert(u) /\ u.state = x.state /\ u.trans = x.trans
  <2>1. u = [state |-> x.state, severity |-> x.severity, trans |-> x.trans, stale |-> (x.stale \/ x.state = "active"),
             event |-> x.event, changed |-> x.changed]
    BY <1>1 DEF IsAlert, Doubt
  <2> QED BY <2>1 DEF IsAlert
<1> QED BY <1>1

-----------------------------------------------------------------------------
(* Changes of one delivery. *)

\* Moved gives the deliveries of S the state x.
LEMMA Shifts ==
  ASSUME NEW s, IsState(s), NEW S, NEW x \in States
  PROVE  LET t == Moved(s, S, x)
         IN  /\ IsState(t)
             /\ t.alerts = s.alerts /\ t.channels = s.channels /\ t.routes = s.routes
             /\ t.silences = s.silences /\ t.marks = s.marks /\ t.migrated = s.migrated
             /\ \A d \in Ids : /\ d \notin S => t.deliveries[d] = s.deliveries[d]
                               /\ d \in S => /\ t.deliveries[d].state = x
                                             /\ t.deliveries[d].attempts = s.deliveries[d].attempts
<1> DEFINE E(d) == Restate(s.deliveries[d], x)
           D == [d \in Ids |-> IF d \in S THEN E(d) ELSE s.deliveries[d]]
           t == Moved(s, S, x)
<1>1. ASSUME NEW d \in Ids
      PROVE  IsDelivery(E(d)) /\ E(d).state = x /\ E(d).attempts = s.deliveries[d].attempts
  <2>1. IsDelivery(s.deliveries[d]) BY DEF IsState
  <2> QED BY <2>1, Restated
<1>2. t = [s EXCEPT !.deliveries = D] BY DEF Moved, Restate
<1> HIDE DEF E
<1>3. D = [d \in Ids |-> D[d]] /\ \A d \in Ids : IsDelivery(D[d]) BY <1>1 DEF IsState
<1>4. /\ IsState(t) /\ t.deliveries = D
      /\ t.alerts = s.alerts /\ t.channels = s.channels /\ t.routes = s.routes
      /\ t.silences = s.silences /\ t.marks = s.marks /\ t.migrated = s.migrated
  <2> HIDE DEF D, t
  <2> QED BY <1>2, <1>3, Edited
<1>5. \A d \in Ids : /\ d \notin S => t.deliveries[d] = s.deliveries[d]
                     /\ d \in S => /\ t.deliveries[d].state = x
                                   /\ t.deliveries[d].attempts = s.deliveries[d].attempts
  <2> HIDE DEF t
  <2> QED BY <1>1, <1>4
<1> HIDE DEF t
<1> QED BY <1>4, <1>5 DEF t

\* One delivery changes: the rest stays sound.
LEMMA EditIsSound ==
  ASSUME NEW s, NEW t, IsState(s), IsState(t), t.alerts = s.alerts, t.marks = s.marks, NEW d,
         NEW tr, NEW cp, NEW of, NEW n, NEW b, NEW tr2, NEW cp2, NEW of2, NEW n2 \in Nat, n <= n2,
         Counted(tr, cp, of, n, b), Sound(s, tr, cp, of, n, b),
         \A e \in Ids : e # d => /\ t.deliveries[e] = s.deliveries[e]
                                 /\ tr2[e] = tr[e] /\ cp2[e] = cp[e],
         d \in Ids => Fits(t, d, tr2, cp2, n2, b),
         \A m \in Pairs : of2[m] = of[m] \/ Ordered(t, m, of2, b)
  PROVE  Sound(t, tr2, cp2, of2, n2, b)
<1>1. n \in Nat BY DEF Counted
<1>2. \A a \in AlertIds : Raised(t, a, b) BY DEF Sound, Raised
<1>3. ASSUME NEW e \in Ids PROVE Fits(t, e, tr2, cp2, n2, b)
  <2>1. CASE e = d BY <2>1
  <2>2. CASE e # d
    <3>1. Fits(s, e, tr, cp, n, b) BY DEF Sound
    <3>2. e[4] \in Nat BY IdParts
    <3>3. Past(s, e, n, b) => Past(t, e, n2, b) BY <1>1, <3>2 DEF Past
    <3> QED BY <2>2, <3>1, <3>3 DEF Fits
  <2> QED BY <2>1, <2>2
<1>4. ASSUME NEW m \in Pairs PROVE Ordered(t, m, of2, b)
  <2>1. Ordered(s, m, of, b) BY DEF Sound
  <2> QED BY <2>1 DEF Ordered
<1> QED BY <1>2, <1>3, <1>4 DEF Sound

\* s says of every delivery what st says, except that outstanding ones may be withdrawn.
Resembles(s) ==
    /\ s.marks = st.marks /\ (st.migrated => s.migrated)
    /\ \A a \in AlertIds : /\ s.alerts[a].state # "none" => st.alerts[a].state # "none"
                           /\ s.alerts[a].trans = st.alerts[a].trans
    /\ \A d \in Ids : LET x == st.deliveries[d]
                          y == s.deliveries[d]
                      IN  /\ y.state = "none" <=> x.state = "none"
                          /\ y.attempts = x.attempts
                          /\ y.state \in Outstanding => x.state \in Outstanding
                          /\ x.state = "sending" => y.state = "sending"

\* Saving such a state sends nothing and forgets nothing.
LEMMA Resaved ==
  ASSUME OutboxInv, Bounded, up, NEW s, IsState(s), NEW same \in BOOLEAN, NEW ok,
         persisted(s, same, ok), Resembles(s),
         UNCHANGED <<flight, reached, tries, copies, offered, serial, born>>,
         up' = up \/ (flight = None /\ (up' => ~degraded'))
  PROVE  OutboxInv' /\ ChangesInOrder /\ NothingForgotten
<1>1. /\ Counted(tries, copies, offered, serial, born)
      /\ Sound(st, tries, copies, offered, serial, born) /\ Roomy(st) /\ InFlight
  BY DEF OutboxInv
<1>2. /\ serial \in Nat /\ born \in [Problems -> Nat] /\ offered \in [Pairs -> Nat]
  BY <1>1 DEF Counted
<1>3. /\ s.marks = st.marks /\ (st.migrated => s.migrated)
      /\ \A a \in AlertIds : /\ s.alerts[a].state # "none" => st.alerts[a].state # "none"
                             /\ s.alerts[a].trans = st.alerts[a].trans
      /\ \A d \in Ids : /\ s.deliveries[d].state = "none" <=> st.deliveries[d].state = "none"
                        /\ s.deliveries[d].attempts = st.deliveries[d].attempts
                        /\ s.deliveries[d].state \in Outstanding => st.deliveries[d].state \in Outstanding
                        /\ st.deliveries[d].state = "sending" => s.deliveries[d].state = "sending"
  BY DEF Resembles
<1>4. IsState(st) BY DEF OutboxInv
<1>5. Sound(s, tries, copies, offered, serial, born)
  BY <1>1, <1>3, <1>4, MovedIsSound
<1>6. flight # None => s.deliveries[flight].state = "sending" BY <1>1, <1>3 DEF InFlight
<1>7. OutboxInv'
  <2>1. /\ serial' = serial /\ born' = born /\ serial <= serial' /\ \A p \in Problems : born[p] <= born'[p]
    BY <1>2
  <2>2. \/ up /\ up' = up
        \/ flight = None /\ (up' => ~degraded')
    BY Zenon
  <2> QED BY <1>2, <1>3, <1>5, <1>6, <2>1, <2>2, Saved
<1>8. Roomy(s)
  <2>1. Held(s) = Held(st) BY <1>3 DEF Held
  <2> QED BY <1>1, <2>1 DEF Roomy
<1>9. Spares(s) BY <1>3, <1>8 DEF Spares
<1>10. NothingForgotten BY <1>9, Forgets
<1>11. ChangesInOrder BY <1>2 DEF ChangesInOrder, Pairs
<1> QED BY <1>7, <1>10, <1>11

-----------------------------------------------------------------------------
(* The settings, and marks of alerts as stale. *)

Safe == OutboxInv' /\ ChangesInOrder /\ NothingForgotten

\* MarkStale changes no delivery.
LEMMA MarkStaleStep ==
  ASSUME OutboxInv, Bounded, NEW P, NEW ok, MarkStale(P, ok)
  PROVE  Safe
<1> DEFINE A == [a \in AlertIds |-> IF a[1] \in P /\ st.alerts[a].state = "active"
                                    THEN [st.alerts[a] EXCEPT !.stale = TRUE] ELSE st.alerts[a]]
           s == [st EXCEPT !.alerts = A]
<1>1. up /\ persisted(s, TRUE, ok) /\ UNCHANGED <<up, worker, env, restarts, history>>
  BY DEF MarkStale, Serving, persist
<1>2. IsState(st) BY DEF OutboxInv
<1>3. \A a \in AlertIds : /\ IsAlert(A[a]) /\ A[a].state = st.alerts[a].state
                          /\ A[a].trans = st.alerts[a].trans
  BY <1>2, Marks DEF Mark, IsState
<1>4. /\ IsState(s) /\ s.alerts = A /\ s.deliveries = st.deliveries /\ s.marks = st.marks
      /\ s.migrated = st.migrated
  <2>1. A = [a \in AlertIds |-> A[a]] OBVIOUS
  <2> HIDE DEF A
  <2> QED BY <1>2, <1>3, <2>1, Observed
<1> HIDE DEF s, A
<1>5. Resembles(s) BY <1>3, <1>4 DEF Resembles
<1> QED BY <1>1, <1>4, <1>5, Resaved DEF worker, env, history, Safe

\* Other settings alone.
LEMMA Reconfigured ==
  ASSUME OutboxInv, Bounded, up, NEW c, NEW r, NEW q, NEW g, NEW s, st.migrated => g,
         s = [alerts |-> st.alerts, channels |-> c, routes |-> r, silences |-> q,
              deliveries |-> st.deliveries, marks |-> st.marks, migrated |-> g],
         NEW same \in BOOLEAN, NEW ok, persisted(s, same, ok),
         UNCHANGED <<flight, reached, tries, copies, offered, serial, born>>,
         up' = up \/ (flight = None /\ (up' => ~degraded'))
  PROVE  Safe
<1>1. IsState(st) BY DEF OutboxInv
<1>2. /\ IsState(s) /\ s.alerts = st.alerts /\ s.deliveries = st.deliveries /\ s.marks = st.marks
      /\ s.migrated = g
  BY <1>1, Configured
<1>3. Resembles(s) BY <1>2 DEF Resembles
<1> QED BY <1>2, <1>3, Resaved DEF Safe

\* SaveChannel changes no delivery.
LEMMA SaveChannelStep ==
  ASSUME OutboxInv, Bounded, NEW c \in Channels, NEW enabled, NEW ok, SaveChannel(c, enabled, ok)
  PROVE  Safe
<1> DEFINE C == [st.channels EXCEPT ![c] = [gen     |-> st.channels[c].gen + 1,
                                            exists  |-> TRUE,
                                            enabled |-> enabled]]
           s == [st EXCEPT !.channels = C]
<1>1. up /\ persisted(s, TRUE, ok) /\ UNCHANGED <<up, worker, env, restarts, history>>
  BY DEF SaveChannel, Serving, persist
<1> HIDE DEF C
<1>2. s = [alerts |-> st.alerts, channels |-> C, routes |-> st.routes, silences |-> st.silences,
           deliveries |-> st.deliveries, marks |-> st.marks, migrated |-> st.migrated]
  BY DEF OutboxInv, IsState
<1> HIDE DEF s
<1> QED BY <1>1, <1>2, Reconfigured DEF worker, env, history

\* SaveRoutes changes no delivery.
LEMMA SaveRoutesStep ==
  ASSUME OutboxInv, Bounded, NEW R, NEW ok, SaveRoutes(R, ok)
  PROVE  Safe
<1> DEFINE s == [st EXCEPT !.routes = R]
<1>1. up /\ persisted(s, FALSE, ok) /\ UNCHANGED <<up, worker, env, restarts, history>>
  BY DEF SaveRoutes, Serving
<1>2. s = [alerts |-> st.alerts, channels |-> st.channels, routes |-> R, silences |-> st.silences,
           deliveries |-> st.deliveries, marks |-> st.marks, migrated |-> st.migrated]
  BY DEF OutboxInv, IsState
<1> HIDE DEF s
<1> QED BY <1>1, <1>2, Reconfigured DEF worker, env, history

\* AddSilence changes no delivery.
LEMMA AddSilenceStep ==
  ASSUME OutboxInv, Bounded, NEW q, NEW ok, AddSilence(q, ok)
  PROVE  Safe
<1>1. PICK old : /\ persisted([st EXCEPT !.silences = (@ \ old) \cup {q}], TRUE, ok)
                 /\ up /\ UNCHANGED <<up, worker, env, restarts, history>>
  BY DEF AddSilence, Serving, persist
<1> DEFINE Q == (st.silences \ old) \cup {q}
           s == [st EXCEPT !.silences = Q]
<1>2. persisted(s, TRUE, ok) BY <1>1
<1> HIDE DEF Q
<1>3. s = [alerts |-> st.alerts, channels |-> st.channels, routes |-> st.routes, silences |-> Q,
           deliveries |-> st.deliveries, marks |-> st.marks, migrated |-> st.migrated]
  BY DEF OutboxInv, IsState
<1> HIDE DEF s
<1> QED BY <1>1, <1>2, <1>3, Reconfigured DEF worker, env, history

\* ImportLegacyTelegram changes no delivery.
LEMMA ImportStep ==
  ASSUME OutboxInv, Bounded, NEW c \in Channels, NEW enabled, NEW ok, ImportLegacyTelegram(c, enabled, ok)
  PROVE  Safe
<1>0. PICK g : g = TRUE OBVIOUS
<1> DEFINE C == [st.channels EXCEPT ![c] = [gen |-> 1, exists |-> TRUE, enabled |-> enabled]]
           R == st.routes \cup {[enabled |-> enabled, min |-> 1, resolved |-> TRUE, repeat |-> FALSE,
                                 problems |-> Problems, channels |-> {c}]}
           s == [st EXCEPT !.migrated = g, !.channels = C, !.routes = R]
           u == [st EXCEPT !.migrated = g]
           v == [u EXCEPT !.channels = C]
<1>1. /\ up /\ ~st.migrated /\ persisted(s, TRUE, ok) /\ up' = ~degraded'
      /\ UNCHANGED <<worker, env, restarts, history>>
  BY <1>0 DEF ImportLegacyTelegram, persist
<1> HIDE DEF C, R
<1>2. s = [v EXCEPT !.routes = R] BY DEF OutboxInv, IsState
<1>3. u = [alerts |-> st.alerts, channels |-> st.channels, routes |-> st.routes,
           silences |-> st.silences, deliveries |-> st.deliveries, marks |-> st.marks,
           migrated |-> g]
  BY DEF OutboxInv, IsState
<1> HIDE DEF s, u
<1>4. v = [alerts |-> st.alerts, channels |-> C, routes |-> st.routes, silences |-> st.silences,
           deliveries |-> st.deliveries, marks |-> st.marks, migrated |-> g]
  BY <1>3
<1> HIDE DEF v
<1>5. s = [alerts |-> st.alerts, channels |-> C, routes |-> R, silences |-> st.silences,
           deliveries |-> st.deliveries, marks |-> st.marks, migrated |-> g]
  BY <1>2, <1>4
<1>6. flight = None BY <1>1 DEF OutboxInv, InFlight
<1> QED BY <1>0, <1>1, <1>5, <1>6, Reconfigured DEF worker, env, history

\* The withdrawn deliveries are settled, and the others stay.
LEMMA DeleteChannelStep ==
  ASSUME OutboxInv, Bounded, NEW c \in Channels, NEW ok, DeleteChannel(c, ok)
  PROVE  Safe
<1> DEFINE C == [st.channels EXCEPT ![c] = [st.channels[c] EXCEPT !.exists = FALSE,
                                                                  !.enabled = FALSE]]
           u == [st EXCEPT !.channels = C]
           S == {d \in Ids : d[2] = c /\ u.deliveries[d].state \in Outstanding}
           s == Moved(u, S, "suppressed")
<1>1. up /\ persisted(s, TRUE, ok) /\ UNCHANGED <<up, worker, env, restarts, history>>
  BY DEF DeleteChannel, Serving, persist, Withdrawn
<1>2. IsState(st) BY DEF OutboxInv
<1>3. /\ IsState(u) /\ u.alerts = st.alerts /\ u.deliveries = st.deliveries /\ u.marks = st.marks
      /\ u.migrated = st.migrated
  <2>1. u = [alerts |-> st.alerts, channels |-> C, routes |-> st.routes, silences |-> st.silences,
             deliveries |-> st.deliveries, marks |-> st.marks, migrated |-> st.migrated]
    <3> HIDE DEF C
    <3> QED BY <1>2 DEF IsState
  <2> HIDE DEF u, C
  <2> QED BY <1>2, <2>1, Configured
<1> HIDE DEF u
<1>4. "suppressed" \in States BY DEF States, Finished
<1>5. /\ IsState(s) /\ s.alerts = u.alerts /\ s.marks = u.marks /\ s.migrated = u.migrated
      /\ \A d \in Ids : /\ d \notin S => s.deliveries[d] = u.deliveries[d]
                        /\ d \in S => /\ s.deliveries[d].state = "suppressed"
                                      /\ s.deliveries[d].attempts = u.deliveries[d].attempts
  <2> HIDE DEF S
  <2> QED BY <1>3, <1>4, Shifts
<1> HIDE DEF s
<1>6. Resembles(s) BY <1>3, <1>5 DEF Resembles, Outstanding
<1> QED BY <1>1, <1>5, <1>6, Resaved DEF worker, env, history, Safe

\* What waited for the end of a silence does not wait any more.
LEMMA DeleteSilenceStep ==
  ASSUME OutboxInv, Bounded, NEW q, NEW ok, DeleteSilence(q, ok)
  PROVE  Safe
<1> DEFINE D == [d \in Ids |-> IF st.deliveries[d].state = "pending" /\ st.deliveries[d].silenced
                               THEN Release(st.deliveries[d]) ELSE st.deliveries[d]]
           Q == st.silences \ {q}
           u == [st EXCEPT !.silences = Q]
           s == [u EXCEPT !.deliveries = D]
<1>1. /\ up /\ persisted([st EXCEPT !.silences = Q, !.deliveries = D], TRUE, ok)
      /\ UNCHANGED <<up, worker, env, restarts, history>>
  BY DEF DeleteSilence, Serving, persist, Release
<1>2. IsState(st) BY DEF OutboxInv
<1>3. \A d \in Ids : /\ IsDelivery(D[d]) /\ D[d].state = st.deliveries[d].state
                     /\ D[d].attempts = st.deliveries[d].attempts
  BY <1>2, Released DEF IsState
<1>4. D = [d \in Ids |-> D[d]] OBVIOUS
<1> HIDE DEF D, Q
<1>5. [st EXCEPT !.silences = Q, !.deliveries = D] = s BY <1>2 DEF IsState
<1>6. u = [alerts |-> st.alerts, channels |-> st.channels, routes |-> st.routes, silences |-> Q,
           deliveries |-> st.deliveries, marks |-> st.marks, migrated |-> st.migrated]
  BY <1>2 DEF IsState
<1> HIDE DEF u
<1>7. /\ IsState(u) /\ u.alerts = st.alerts /\ u.deliveries = st.deliveries /\ u.marks = st.marks
      /\ u.migrated = st.migrated
  BY <1>2, <1>6, Configured
<1>8. /\ IsState(s) /\ s.alerts = u.alerts /\ s.deliveries = D /\ s.marks = u.marks
      /\ s.migrated = u.migrated
  BY <1>3, <1>4, <1>7, Edited
<1> HIDE DEF s
<1>9. Resembles(s) BY <1>3, <1>7, <1>8 DEF Resembles
<1> QED BY <1>1, <1>5, <1>8, <1>9, Resaved DEF worker, env, history, Safe

-----------------------------------------------------------------------------
(* The result of a send. *)

\* It settles the claim, or opens it again if the receiver refused it and attempts are left.
LEMMA Results ==
  ASSUME NEW x, IsDelivery(x), NEW outcome \in {"accepted", "rejected", "unknown"}
  PROVE  LET u == Result(x, outcome)
         IN  /\ IsDelivery(u) /\ u.attempts = x.attempts
             /\ u.state \in Finished \cup Stuck \cup Outstanding
             /\ u.state \in Outstanding => outcome = "rejected" /\ x.attempts < MaxAttempts
<1>0. MaxAttempts \in Nat /\ x.attempts \in Nat BY AlertConstants DEF IsDelivery
<1>1. {"sent", "uncertain", "failed", "retrying"} \subseteq States
  BY DEF States, Outstanding, Finished, Stuck
<1>2. CASE outcome = "accepted"
  <2> DEFINE u == Restate(x, "sent")
  <2>1. Result(x, outcome) = u BY <1>2 DEF Result, Restate
  <2>2. IsDelivery(u) /\ u.state = "sent" /\ u.attempts = x.attempts BY <1>1, Restated
  <2> HIDE DEF u
  <2> QED BY <2>1, <2>2 DEF Finished, Outstanding
<1>3. CASE outcome = "unknown"
  <2> DEFINE u == Restate(x, "uncertain")
  <2>1. Result(x, outcome) = u BY <1>3 DEF Result, Restate
  <2>2. IsDelivery(u) /\ u.state = "uncertain" /\ u.attempts = x.attempts BY <1>1, Restated
  <2> HIDE DEF u
  <2> QED BY <2>1, <2>2 DEF Stuck, Outstanding
<1>4. CASE outcome = "rejected" /\ x.attempts >= MaxAttempts
  <2> DEFINE u == Restate(x, "failed")
  <2>1. Result(x, outcome) = u BY <1>4 DEF Result, Restate
  <2>2. IsDelivery(u) /\ u.state = "failed" /\ u.attempts = x.attempts BY <1>1, Restated
  <2> HIDE DEF u
  <2> QED BY <2>1, <2>2 DEF Stuck, Outstanding
<1>5. CASE outcome = "rejected" /\ ~(x.attempts >= MaxAttempts)
  <2>1. Result(x, outcome) = Refuse(x) BY <1>5 DEF Result, Refuse
  <2>2. x.attempts < MaxAttempts BY <1>0, <1>5
  <2> QED BY <1>5, <2>1, <2>2, Refused DEF Outstanding
<1> QED BY <1>2, <1>3, <1>4, <1>5

\* The result of the send is written, or the claim stays.
LEMMA CompleteStep ==
  ASSUME OutboxInv, Bounded, NEW outcome \in {"accepted", "rejected", "unknown"}, NEW ok,
         Complete(outcome, ok)
  PROVE  Safe
<1> DEFINE x == st.deliveries[flight]
           r == Result(x, outcome)
           D == [st.deliveries EXCEPT ![flight] = r]
           s == [st EXCEPT !.deliveries = D]
<1>1. /\ persisted(s, TRUE, ok) /\ (outcome = "rejected" => ~reached)
      /\ flight # None /\ flight' = None /\ reached' = FALSE
      /\ UNCHANGED <<up, env, restarts, history>>
  BY DEF Complete, persist
<1>2. /\ IsState(st) /\ IsState(disk) /\ Counted(tries, copies, offered, serial, born)
      /\ Sound(disk, tries, copies, offered, serial, born)
      /\ InFlight
  BY DEF OutboxInv
<1>3. /\ up /\ flight \in Ids /\ tries[flight] > 0 /\ x.state = "sending"
      /\ ~reached => copies[flight] = 0
  BY <1>1, <1>2 DEF InFlight
<1>4. /\ Sound(st, tries, copies, offered, serial, born) /\ Roomy(st)
      /\ ~degraded => disk = st
  BY <1>3 DEF OutboxInv
<1>5. IsDelivery(x) BY <1>2, <1>3 DEF IsState
<1>6. /\ IsDelivery(r) /\ r.attempts = x.attempts
      /\ r.state \in Finished \cup Stuck \cup Outstanding
      /\ r.state \in Outstanding => outcome = "rejected" /\ x.attempts < MaxAttempts
  BY <1>5, Results
<1> HIDE DEF r
<1>7. /\ D = [d \in Ids |-> D[d]] /\ \A d \in Ids : IsDelivery(D[d])
      /\ D[flight] = r /\ \A d \in Ids : d # flight => D[d] = st.deliveries[d]
  BY <1>2, <1>3, <1>6 DEF IsState
<1> HIDE DEF D
<1>8. /\ IsState(s) /\ s.deliveries = D /\ s.alerts = st.alerts /\ s.marks = st.marks
      /\ s.migrated = st.migrated
  BY <1>2, <1>7, Edited
<1> HIDE DEF s
<1>9. serial \in Nat /\ serial <= serial /\ tries[flight] \in Nat /\ copies[flight] \in Nat
  BY <1>2, <1>3 DEF Counted
<1>10. Fits(s, flight, tries, copies, serial, born)
  <2>1. Fits(st, flight, tries, copies, serial, born) BY <1>3, <1>4 DEF Sound
  <2>2. Past(st, flight, serial, born) /\ tries[flight] <= x.attempts /\ x.attempts <= MaxAttempts
    BY <1>3, <2>1 DEF Fits
  <2>3. Past(s, flight, serial, born) BY <1>8, <2>2 DEF Past
  <2>4. r.state \in Outstanding => copies[flight] = 0 BY <1>1, <1>3, <1>6
  <2> QED BY <1>6, <1>7, <1>8, <2>2, <2>3, <2>4 DEF Fits
<1>11. Sound(s, tries, copies, offered, serial, born)
  <2>1. \A e \in Ids : e # flight => s.deliveries[e] = st.deliveries[e] BY <1>7, <1>8
  <2> QED BY <1>2, <1>4, <1>8, <1>9, <1>10, <2>1, EditIsSound
<1>12. /\ IsState(st') /\ IsState(disk') /\ Sound(disk', tries, copies, offered, serial, born)
       /\ Sound(st', tries, copies, offered, serial, born)
       /\ ~degraded' => disk' = st'
       /\ Roomy(st')
  BY <1>1, <1>2, <1>4, <1>8, <1>11, Written
<1>13. OutboxInv'
  <2>1. InFlight' BY <1>1 DEF InFlight
  <2> QED BY <1>1, <1>2, <1>12, <2>1 DEF OutboxInv, env, history
<1>14. Spares(s)
  <2>1. r.state # "none" BY <1>6 DEF Finished, Stuck, Outstanding
  <2>2. Held(s) = Held(st) BY <1>3, <1>7, <1>8, <2>1 DEF Held
  <2>3. Roomy(s) BY <1>4, <2>2 DEF Roomy
  <2> QED BY <1>7, <1>8, <2>1, <2>3 DEF Spares
<1>15. NothingForgotten BY <1>1, <1>3, <1>8, <1>14, Forgets
<1>16. ChangesInOrder BY <1>1, <1>2 DEF ChangesInOrder, Pairs, history, Counted
<1> QED BY <1>13, <1>15, <1>16 DEF Safe

\* The receiver gets a claim that it has not got.
LEMMA ReachStep ==
  ASSUME OutboxInv, Reach
  PROVE  Safe
<1>1. /\ flight # None /\ ~reached /\ reached' = TRUE
      /\ copies' = [copies EXCEPT ![flight] = @ + 1]
      /\ UNCHANGED <<st, disk, degraded, up, flight, env, failures, restarts, tries, offered>>
  BY DEF Reach
<1>2. /\ IsState(st) /\ IsState(disk) /\ Counted(tries, copies, offered, serial, born)
      /\ Sound(disk, tries, copies, offered, serial, born)
      /\ InFlight
  BY DEF OutboxInv
<1>3. /\ up /\ flight \in Ids /\ tries[flight] > 0
      /\ st.deliveries[flight].state = "sending" /\ disk.deliveries[flight].state = "sending"
      /\ copies[flight] = 0
  BY <1>1, <1>2 DEF InFlight
<1>4. Sound(st, tries, copies, offered, serial, born) BY <1>3 DEF OutboxInv
<1>5. /\ copies' \in [Ids -> Nat] /\ copies'[flight] = 1
      /\ \A d \in Ids : d # flight => copies'[d] = copies[d]
  BY <1>1, <1>2, <1>3 DEF Counted
<1>6. Counted(tries, copies', offered, serial, born) BY <1>2, <1>3, <1>5 DEF Counted
<1>7. ASSUME NEW s, IsState(s), Sound(s, tries, copies, offered, serial, born),
             s.deliveries[flight].state = "sending"
      PROVE  Sound(s, tries, copies', offered, serial, born)
  <2>1. serial \in Nat /\ serial <= serial BY <1>2 DEF Counted
  <2>2. Fits(s, flight, tries, copies, serial, born) BY <1>3, <1>7 DEF Sound
  <2>3. Fits(s, flight, tries, copies', serial, born) BY <1>7, <2>2 DEF Fits, Outstanding
  <2> QED BY <1>2, <1>5, <1>7, <2>1, <2>3, EditIsSound
<1>8. /\ Sound(st, tries, copies', offered, serial, born)
      /\ Sound(disk, tries, copies', offered, serial, born)
  BY <1>2, <1>3, <1>4, <1>7
<1>9. InFlight' BY <1>1, <1>2 DEF InFlight
<1>10. OutboxInv'
  <2>1. up => Roomy(st) /\ (~degraded => disk = st) BY DEF OutboxInv
  <2> QED BY <1>1, <1>2, <1>6, <1>8, <1>9, <2>1 DEF OutboxInv, env, Roomy, Held
<1>11. NothingForgotten BY <1>1 DEF NothingForgotten, Held
<1>12. ChangesInOrder BY <1>1, <1>2 DEF ChangesInOrder, Pairs, Counted
<1> QED BY <1>10, <1>11, <1>12 DEF Safe

-----------------------------------------------------------------------------
(* Retries and tests. *)

\* An operator opens a delivery that is stuck, not the one in flight, with new attempts.
LEMMA RetryStep ==
  ASSUME OutboxInv, Bounded, NEW d \in Ids, NEW ok, RetryDelivery(d, ok)
  PROVE  Safe
<1> DEFINE r == Reopen(st.deliveries[d])
           D == [st.deliveries EXCEPT ![d] = r]
           s == [st EXCEPT !.deliveries = D]
<1>1. /\ up /\ st.deliveries[d].state \in Stuck /\ persisted(s, TRUE, ok)
      /\ copies' = [copies EXCEPT ![d] = 0] /\ tries' = [tries EXCEPT ![d] = 0]
      /\ UNCHANGED <<up, worker, phase, born, serial, clock, restarts, offered>>
  BY DEF RetryDelivery, Serving, persist, Reopen
<1>2. /\ IsState(st) /\ IsState(disk) /\ Counted(tries, copies, offered, serial, born)
      /\ Sound(disk, tries, copies, offered, serial, born)
      /\ Sound(st, tries, copies, offered, serial, born) /\ Roomy(st)
      /\ InFlight /\ (~degraded => disk = st)
  BY <1>1 DEF OutboxInv
<1>3. IsDelivery(r) /\ r.state = "pending" /\ r.attempts = 0 BY <1>2, Reopened DEF IsState
<1> HIDE DEF r
<1>4. /\ D = [e \in Ids |-> D[e]] /\ \A e \in Ids : IsDelivery(D[e])
      /\ D[d] = r /\ \A e \in Ids : e # d => D[e] = st.deliveries[e]
  BY <1>2, <1>3 DEF IsState
<1> HIDE DEF D
<1>5. /\ IsState(s) /\ s.deliveries = D /\ s.alerts = st.alerts /\ s.marks = st.marks
      /\ s.migrated = st.migrated
  BY <1>2, <1>4, Edited
<1> HIDE DEF s
<1>6. /\ serial \in Nat /\ serial <= serial /\ MaxAttempts \in Nat \ {0}
      /\ copies' \in [Ids -> Nat] /\ tries' \in [Ids -> Nat] /\ copies'[d] = 0 /\ tries'[d] = 0
      /\ \A e \in Ids : e # d => copies'[e] = copies[e] /\ tries'[e] = tries[e]
  BY <1>1, <1>2, AlertConstants DEF Counted
<1>7. Counted(tries', copies', offered, serial, born) BY <1>2, <1>6 DEF Counted
<1>8. ASSUME NEW t, IsState(t), Sound(t, tries, copies, offered, serial, born)
      PROVE  Sound(t, tries', copies', offered, serial, born)
  <2>1. Fits(t, d, tries, copies, serial, born) /\ IsDelivery(t.deliveries[d]) BY <1>8 DEF Sound, IsState
  <2>2. Fits(t, d, tries', copies', serial, born) BY <1>6, <2>1 DEF Fits, IsDelivery
  <2> QED BY <1>2, <1>6, <1>8, <2>2, EditIsSound
<1>9. /\ Sound(st, tries', copies', offered, serial, born)
      /\ Sound(disk, tries', copies', offered, serial, born)
  BY <1>2, <1>8
<1>10. Sound(s, tries', copies', offered, serial, born)
  <2>1. Past(st, d, serial, born)
    <3>1. Fits(st, d, tries, copies, serial, born) BY <1>2 DEF Sound
    <3> QED BY <1>1, <3>1 DEF Fits, Stuck
  <2>2. Past(s, d, serial, born) BY <1>5, <2>1 DEF Past
  <2>3. Fits(s, d, tries', copies', serial, born) BY <1>3, <1>4, <1>5, <1>6, <2>2 DEF Fits
  <2>4. \A e \in Ids : e # d => s.deliveries[e] = st.deliveries[e] BY <1>4, <1>5
  <2> QED BY <1>2, <1>5, <1>6, <2>3, <2>4, EditIsSound
<1>11. /\ IsState(st') /\ IsState(disk') /\ Sound(disk', tries', copies', offered, serial, born)
       /\ Sound(st', tries', copies', offered, serial, born)
       /\ (~degraded' => disk' = st') /\ Roomy(st')
       /\ (st.migrated => st'.migrated)
  BY <1>1, <1>2, <1>5, <1>7, <1>9, <1>10, Written
<1>12. InFlight'
  <2>1. SUFFICES ASSUME flight # None PROVE InFlight' BY <1>1 DEF InFlight, worker
  <2>2. /\ up /\ st.migrated /\ flight \in Ids /\ tries[flight] > 0
        /\ st.deliveries[flight].state = "sending" /\ disk.deliveries[flight].state = "sending"
        /\ ~reached => copies[flight] = 0
    BY <1>2, <2>1 DEF InFlight
  <2>3. flight # d BY <1>1, <2>2 DEF Stuck
  <2>4. s.deliveries[flight] = st.deliveries[flight] BY <1>4, <1>5, <2>2, <2>3
  <2>5. s.deliveries[flight].state \notin Finished BY <2>2, <2>4 DEF Finished
  <2>6. /\ st'.deliveries[flight] \in {st.deliveries[flight], s.deliveries[flight]}
        /\ disk'.deliveries[flight] \in {disk.deliveries[flight], s.deliveries[flight]}
    BY <1>1, <1>2, <1>5, <2>2, <2>5, WrittenDelivery
  <2>7. st'.deliveries[flight].state = "sending" /\ disk'.deliveries[flight].state = "sending"
    BY <2>2, <2>4, <2>6
  <2>8. tries'[flight] = tries[flight] /\ copies'[flight] = copies[flight] BY <1>6, <2>2, <2>3
  <2> QED BY <1>1, <1>11, <2>2, <2>7, <2>8 DEF InFlight, worker
<1>13. OutboxInv' BY <1>1, <1>7, <1>11, <1>12 DEF OutboxInv
<1>14. Spares(s)
  <2>1. r.state # "none" /\ r.state \notin Finished BY <1>3 DEF Finished
  <2> QED BY <1>4, <1>5, <2>1 DEF Spares
<1>15. NothingForgotten BY <1>1, <1>5, <1>14, Forgets
<1>16. ChangesInOrder BY <1>1, <1>2 DEF ChangesInOrder, Pairs, Counted
<1> QED BY <1>13, <1>15, <1>16 DEF Safe

\* A test has a slot of its own.
LEMMA TestStep ==
  ASSUME OutboxInv, Bounded, NEW c \in Channels, NEW ok, TestChannel(c, ok)
  PROVE  Safe
<1> DEFINE d == <<TestAlert, c, 0, serial + 1>>
           r == [state |-> "pending", attempts |-> 0, gen |-> st.channels[c].gen, shows |-> "test",
                 wait |-> FALSE, silenced |-> FALSE, created |-> clock]
           D == [st.deliveries EXCEPT ![d] = r]
           s == [st EXCEPT !.deliveries = D]
<1>1. /\ up /\ serial < MaxSerials /\ persisted(s, TRUE, ok) /\ serial' = serial + 1
      /\ UNCHANGED <<up, worker, phase, born, restarts, retries, history>>
  BY DEF TestChannel, Serving, persist
<1>2. /\ IsState(st) /\ Counted(tries, copies, offered, serial, born)
      /\ Sound(st, tries, copies, offered, serial, born) /\ InFlight
  BY <1>1 DEF OutboxInv
<1>3. /\ serial \in Nat /\ serial' \in Nat /\ serial <= serial' /\ serial + 1 \in 1..MaxSerials
      /\ MaxAttempts \in Nat \ {0} /\ born \in [Problems -> Nat]
  BY <1>1, <1>2, AlertConstants DEF Counted
<1>4. d \in Ids /\ d[4] = serial + 1 BY <1>3 DEF Ids
<1>5. IsDelivery(r) /\ r.state = "pending" /\ r.attempts = 0 BY DEF IsDelivery, States, Outstanding
<1> HIDE DEF r, d
<1>6. /\ D = [e \in Ids |-> D[e]] /\ \A e \in Ids : IsDelivery(D[e])
      /\ D[d] = r /\ \A e \in Ids : e # d => D[e] = st.deliveries[e]
  BY <1>2, <1>4, <1>5 DEF IsState
<1> HIDE DEF D
<1>7. /\ IsState(s) /\ s.deliveries = D /\ s.alerts = st.alerts /\ s.marks = st.marks
      /\ s.migrated = st.migrated
  BY <1>2, <1>6, Edited
<1> HIDE DEF s
<1>8. st.deliveries[d].state = "none" /\ tries[d] = 0 /\ copies[d] = 0
  <2>1. Fits(st, d, tries, copies, serial, born) BY <1>2, <1>4 DEF Sound
  <2>2. ~Past(st, d, serial, born) BY <1>3, <1>4 DEF Past
  <2>3. /\ tries[d] \in Nat /\ copies[d] \in Nat /\ (copies[d] > 0 => tries[d] > 0)
    BY <1>2, <1>4 DEF Counted
  <2> QED BY <2>1, <2>2, <2>3 DEF Fits
<1>9. Sound(s, tries, copies, offered, serial', born)
  <2>1. Past(s, d, serial', born) BY <1>1, <1>3, <1>4 DEF Past
  <2>2. Fits(s, d, tries, copies, serial', born) BY <1>3, <1>5, <1>6, <1>7, <1>8, <2>1 DEF Fits
  <2>3. \A e \in Ids : e # d => s.deliveries[e] = st.deliveries[e] BY <1>6, <1>7
  <2> QED BY <1>2, <1>3, <1>7, <2>2, <2>3, EditIsSound
<1>10. flight # None => s.deliveries[flight].state = "sending"
  <2>1. SUFFICES ASSUME flight # None PROVE s.deliveries[flight].state = "sending" OBVIOUS
  <2>2. flight \in Ids /\ st.deliveries[flight].state = "sending" BY <1>2, <2>1 DEF InFlight
  <2> QED BY <1>6, <1>7, <1>8, <2>2
<1>11. OutboxInv'
  <2>1. born' = born /\ \A p \in Problems : born[p] <= born'[p] BY <1>1, <1>3
  <2>2. UNCHANGED <<flight, reached, tries, copies, offered>> /\ up /\ up' = up
    BY <1>1 DEF worker, history
  <2> QED BY <1>1, <1>3, <1>7, <1>9, <1>10, <2>1, <2>2, Saved
<1>12. Spares(s)
  <2>1. \A e \in Ids : st.deliveries[e].state # "none" => s.deliveries[e] = st.deliveries[e]
    BY <1>6, <1>7, <1>8
  <2> QED BY <2>1 DEF Spares
<1>13. NothingForgotten BY <1>1, <1>7, <1>12, Forgets
<1>14. ChangesInOrder BY <1>1, <1>2 DEF ChangesInOrder, Pairs, history, Counted
<1> QED BY <1>11, <1>13, <1>14 DEF Safe

-----------------------------------------------------------------------------
(* The process and time. *)

\* What Open writes keeps every delivery, and turns claims into uncertain ones.
LEMMA Recovers ==
  ASSUME NEW s, IsState(s)
  PROVE  LET t == Recovered(s)
         IN  /\ IsState(t) /\ t.marks = s.marks /\ t.migrated = s.migrated
             /\ \A a \in AlertIds : /\ t.alerts[a].state = s.alerts[a].state
                                    /\ t.alerts[a].trans = s.alerts[a].trans
             /\ \A d \in Ids : IF s.deliveries[d].state = "sending"
                               THEN /\ t.deliveries[d].state = "uncertain"
                                    /\ t.deliveries[d].attempts = s.deliveries[d].attempts
                               ELSE t.deliveries[d] = s.deliveries[d]
<1> DEFINE A == [a \in AlertIds |-> Doubt(s.alerts[a])]
           u == [s EXCEPT !.alerts = A]
           S == {d \in Ids : s.deliveries[d].state = "sending"}
           t == Moved(u, S, "uncertain")
<1>1. Recovered(s) = t BY DEF Recovered, Doubt
<1>2. \A a \in AlertIds : IsAlert(A[a]) /\ A[a].state = s.alerts[a].state /\ A[a].trans = s.alerts[a].trans
  BY Doubts DEF IsState
<1>3. A = [a \in AlertIds |-> A[a]] OBVIOUS
<1> HIDE DEF A
<1>4. /\ IsState(u) /\ u.alerts = A /\ u.deliveries = s.deliveries /\ u.marks = s.marks
      /\ u.migrated = s.migrated
  BY <1>2, <1>3, Observed
<1> HIDE DEF u
<1>5. "uncertain" \in States BY DEF States, Stuck
<1>6. /\ IsState(t) /\ t.alerts = u.alerts /\ t.marks = u.marks /\ t.migrated = u.migrated
      /\ \A d \in Ids : /\ d \notin S => t.deliveries[d] = u.deliveries[d]
                        /\ d \in S => /\ t.deliveries[d].state = "uncertain"
                                      /\ t.deliveries[d].attempts = u.deliveries[d].attempts
  <2> HIDE DEF S
  <2> QED BY <1>4, <1>5, Shifts
<1> HIDE DEF t
<1> QED BY <1>1, <1>2, <1>4, <1>6

\* Open makes the claims of the last process uncertain.
LEMMA OpenStep ==
  ASSUME OutboxInv, NEW ok, Open(ok)
  PROVE  Safe
<1> DEFINE s == Recovered(disk)
<1>1. /\ ~up /\ persisted(s, FALSE, ok) /\ up' = ~degraded'
      /\ UNCHANGED <<worker, env, restarts, history>>
  BY DEF Open
<1>2. /\ IsState(st) /\ IsState(disk) /\ Counted(tries, copies, offered, serial, born)
      /\ Sound(disk, tries, copies, offered, serial, born)
      /\ InFlight
  BY DEF OutboxInv
<1>3. /\ IsState(s) /\ s.marks = disk.marks
      /\ \A a \in AlertIds : /\ s.alerts[a].state = disk.alerts[a].state
                             /\ s.alerts[a].trans = disk.alerts[a].trans
      /\ \A d \in Ids : IF disk.deliveries[d].state = "sending"
                        THEN /\ s.deliveries[d].state = "uncertain"
                             /\ s.deliveries[d].attempts = disk.deliveries[d].attempts
                        ELSE s.deliveries[d] = disk.deliveries[d]
  BY <1>2, Recovers
<1> HIDE DEF s
<1>4. Sound(s, tries, copies, offered, serial, born)
  <2>1. \A d \in Ids : /\ s.deliveries[d].state # "none" => disk.deliveries[d].state # "none"
                       /\ s.deliveries[d].attempts = disk.deliveries[d].attempts
                       /\ s.deliveries[d].state \in Outstanding => disk.deliveries[d].state \in Outstanding
    BY <1>3 DEF Outstanding
  <2> QED BY <1>2, <1>3, <2>1, MovedIsSound
<1>5. /\ IsState(st') /\ IsState(disk') /\ Sound(disk', tries, copies, offered, serial, born)
      /\ ~degraded' => /\ Sound(st', tries, copies, offered, serial, born)
                       /\ disk' = st' /\ Roomy(st')
  BY <1>1, <1>2, <1>3, <1>4, Written
<1>6. flight = None BY <1>1, <1>2 DEF InFlight
<1>7. OutboxInv'
  <2>1. InFlight' BY <1>1, <1>6 DEF InFlight, worker
  <2> QED BY <1>1, <1>2, <1>5, <2>1 DEF OutboxInv, env, history
<1>8. NothingForgotten
  <2>1. SUFFICES ASSUME NEW d \in Ids, disk.deliveries[d].state # "none",
                        disk.deliveries[d].state \notin Finished
                 PROVE  disk'.deliveries[d].state # "none"
    BY <1>1 DEF NothingForgotten, Held
  <2>2. s.deliveries[d].state # "none" /\ s.deliveries[d].state \notin Finished
    BY <1>3, <2>1 DEF Finished
  <2>3. disk'.deliveries[d] \in {disk.deliveries[d], s.deliveries[d]}
    BY <1>1, <1>3, <2>2, WrittenDelivery
  <2> QED BY <2>1, <2>2, <2>3
<1>9. ChangesInOrder BY <1>1, <1>2 DEF ChangesInOrder, Pairs, history, Counted
<1> QED BY <1>7, <1>8, <1>9 DEF Safe

\* A crash leaves the claim on disk.
LEMMA CrashStep ==
  ASSUME OutboxInv, Crash
  PROVE  Safe
<1>1. IsState(EmptyState) BY EmptyFits
<1>2. /\ up' = FALSE /\ st' = EmptyState /\ flight' = None
      /\ UNCHANGED <<disk, env, failures, history>>
  BY DEF Crash
<1>3. OutboxInv' BY <1>1, <1>2 DEF OutboxInv, InFlight, env, history
<1>4. NothingForgotten BY <1>2 DEF NothingForgotten, Held
<1>5. ChangesInOrder BY <1>2 DEF OutboxInv, ChangesInOrder, Pairs, history, Counted
<1> QED BY <1>3, <1>4, <1>5 DEF Safe

\* Nothing but the silences and the stutter.
LEMMA IdleStep ==
  ASSUME OutboxInv, UNCHANGED <<st, disk, degraded, up, worker, born, serial, history>>
  PROVE  Safe
<1>1. OutboxInv' BY DEF OutboxInv, InFlight, worker, history, Roomy, Held
<1>2. NothingForgotten BY DEF NothingForgotten, Held
<1>3. ChangesInOrder BY DEF OutboxInv, ChangesInOrder, Pairs, history, Counted
<1> QED BY <1>1, <1>2, <1>3 DEF Safe

\* At the start there are no deliveries and no alerts.
LEMMA OutboxInit == ASSUME Init PROVE OutboxInv
<1>1. /\ st = EmptyState /\ disk = EmptyState /\ up = FALSE /\ flight = None
      /\ born = [p \in Problems |-> 0] /\ serial = 0
      /\ copies = [d \in Ids |-> 0] /\ tries = [d \in Ids |-> 0]
      /\ offered = [m \in Pairs |-> 0]
  BY DEF Init, Pairs
<1>2. /\ IsState(EmptyState) /\ \A d \in Ids : EmptyState.deliveries[d].state = "none"
      /\ \A a \in AlertIds : EmptyState.alerts[a].state = "none"
  BY EmptyFits
<1>3. Counted(tries, copies, offered, serial, born) BY <1>1, AlertConstants DEF Counted
<1>4. \A a \in AlertIds : Raised(disk, a, born) BY <1>1, <1>2 DEF Raised
<1>5. \A d \in Ids : Fits(disk, d, tries, copies, serial, born)
  BY <1>1, <1>2 DEF Fits, Outstanding
<1>6. \A m \in Pairs : Ordered(disk, m, offered, born)
  <2> TAKE m \in Pairs
  <2>1. m[1] \in AlertIds BY DEF Pairs
  <2> QED BY <1>1, <1>2, <2>1 DEF Ordered
<1>7. InFlight BY <1>1 DEF InFlight
<1> QED BY <1>1, <1>2, <1>3, <1>4, <1>5, <1>6, <1>7 DEF OutboxInv, Sound

-----------------------------------------------------------------------------
(* Observations. *)

\* A nonempty set of numbers up to N has a greatest one.
LEMMA Greatest ==
  ASSUME NEW N \in Nat, NEW S, S \subseteq 1..N, S # {}
  PROVE  \E n \in S : \A k \in S : k <= n
<1> DEFINE less == {ss \in Nat \X Nat : ss[1] < ss[2]}
           T == {N - n : n \in S}
<1>1. IsWellFoundedOn(less, Nat) BY NatLessThanWellFounded DEF OpToRel
<1>2. T \subseteq Nat /\ T # {}
  <2>1. \A n \in S : n \in Nat /\ n <= N OBVIOUS
  <2>2. \A n \in S : N - n \in Nat BY <2>1
  <2> QED BY <2>2
<1>3. PICK x \in T : \A y \in T : <<y, x>> \notin less
  <2> HIDE DEF less, T
  <2> QED BY <1>1, <1>2, WFMin
<1>4. PICK n \in S : x = N - n BY <1>3
<1>5. ASSUME NEW k \in S PROVE k <= n
  <2>1. N - k \in T /\ N - k \in Nat /\ x \in Nat /\ k \in Nat /\ n \in Nat BY <1>2, <1>4
  <2>2. <<N - k, x>> \notin less BY <1>3, <2>1
  <2>3. ~(N - k < x) BY <2>1, <2>2
  <2> QED BY <1>4, <2>1, <2>3
<1> QED BY <1>5

\* The current alert of a problem is one that was raised, or there is none.
LEMMA Currents ==
  ASSUME NEW s, NEW p
  PROVE  /\ current(s, p)[1] = p
         /\ current(s, p) \in AlertIds => s.alerts[current(s, p)].state # "none"
<1> DEFINE known == {n \in 1..MaxAlerts : s.alerts[<<p, n>>].state # "none"}
<1>1. CASE known = {}
  <2>1. current(s, p) = <<p, 0>> BY <1>1 DEF current
  <2>2. <<p, 0>> \notin AlertIds BY DEF AlertIds
  <2> QED BY <2>1, <2>2
<1>2. CASE known # {}
  <2> DEFINE n == CHOOSE n \in known : \A k \in known : k <= n
  <2>1. current(s, p) = <<p, n>> BY <1>2 DEF current
  <2>2. n \in known
    <3>1. MaxAlerts \in Nat /\ known \subseteq 1..MaxAlerts BY AlertConstants
    <3> HIDE DEF known
    <3>2. \E k \in known : \A l \in known : l <= k BY <1>2, <3>1, Greatest
    <3> QED BY <3>2
  <2>3. s.alerts[<<p, n>>].state # "none" BY <2>2
  <2> HIDE DEF n
  <2> QED BY <2>1, <2>3
<1> QED BY <1>1, <1>2

\* What a sight makes of an alert: it is never unseen, and every change is counted.
Progress(x, u, o) ==
    /\ IsAlert(u) /\ u.trans \in {x.trans, x.trans + 1}
    /\ x.state # "none" \/ u.trans # x.trans => u.state # "none"
    /\ u.state # "none" /\ x.state = "none" => o.kind \in {"active", "event"}

\* Seen changes an alert forwards.
LEMMA Sighted ==
  ASSUME NEW x, IsAlert(x), NEW o
  PROVE  Progress(x, Seen(x, o), o)
<1>0. x.trans \in Nat BY DEF IsAlert
<1>1. PICK next : next = [x EXCEPT !.trans = x.trans + 1, !.changed = clock, !.stale = FALSE] OBVIOUS
<1>2. next = [state |-> x.state, severity |-> x.severity, trans |-> x.trans + 1, stale |-> FALSE,
              event |-> x.event, changed |-> clock]
  BY <1>1 DEF IsAlert
<1>3. ASSUME NEW u, u = [x EXCEPT !.stale = TRUE] \/ u = [x EXCEPT !.stale = FALSE] \/ u = x
      PROVE  Progress(x, u, o)
  <2>1. CASE u = [x EXCEPT !.stale = TRUE]
    <3>1. u = [state |-> x.state, severity |-> x.severity, trans |-> x.trans, stale |-> TRUE,
               event |-> x.event, changed |-> x.changed] BY <2>1 DEF IsAlert
    <3> QED BY <1>0, <3>1 DEF Progress, IsAlert
  <2>2. CASE u = [x EXCEPT !.stale = FALSE]
    <3>1. u = [state |-> x.state, severity |-> x.severity, trans |-> x.trans, stale |-> FALSE,
               event |-> x.event, changed |-> x.changed] BY <2>2 DEF IsAlert
    <3> QED BY <1>0, <3>1 DEF Progress, IsAlert
  <2>3. CASE u = x BY <2>3 DEF Progress
  <2> QED BY <1>3, <2>1, <2>2, <2>3
<1>4. ASSUME NEW u, u = [next EXCEPT !.state = "resolved"], x.state = "active"
      PROVE  Progress(x, u, o)
  <2>1. u = [state |-> "resolved", severity |-> x.severity, trans |-> x.trans + 1, stale |-> FALSE,
             event |-> x.event, changed |-> clock] BY <1>2, <1>4
  <2>2. IsAlert(u) BY <1>0, <2>1 DEF IsAlert
  <2>3. u.state = "resolved" /\ u.trans = x.trans + 1 BY <2>1
  <2> QED BY <1>4, <2>2, <2>3 DEF Progress
<1>5. ASSUME NEW u, u = [next EXCEPT !.state = "active", !.severity = o.severity], o.kind = "active"
      PROVE  Progress(x, u, o)
  <2>1. u = [state |-> "active", severity |-> o.severity, trans |-> x.trans + 1, stale |-> FALSE,
             event |-> x.event, changed |-> clock] BY <1>2, <1>5
  <2>2. IsAlert(u) BY <1>0, <2>1 DEF IsAlert
  <2>3. u.state = "active" /\ u.trans = x.trans + 1 BY <2>1
  <2> QED BY <1>5, <2>2, <2>3 DEF Progress
<1>6. ASSUME NEW u, o.kind = "event",
             u = [next EXCEPT !.state = "resolved", !.severity = o.severity, !.event = TRUE]
      PROVE  Progress(x, u, o)
  <2>1. u = [state |-> "resolved", severity |-> o.severity, trans |-> x.trans + 1, stale |-> FALSE,
             event |-> TRUE, changed |-> clock] BY <1>2, <1>6
  <2>2. IsAlert(u) BY <1>0, <2>1 DEF IsAlert
  <2>3. u.state = "resolved" /\ u.trans = x.trans + 1 BY <2>1
  <2> QED BY <1>6, <2>2, <2>3 DEF Progress
<1>7. \/ Seen(x, o) = [x EXCEPT !.stale = TRUE] \/ Seen(x, o) = [x EXCEPT !.stale = FALSE]
      \/ Seen(x, o) = x
      \/ Seen(x, o) = [next EXCEPT !.state = "resolved"] /\ x.state = "active"
      \/ Seen(x, o) = [next EXCEPT !.state = "active", !.severity = o.severity] /\ o.kind = "active"
      \/ /\ Seen(x, o) = [next EXCEPT !.state = "resolved", !.severity = o.severity, !.event = TRUE]
         /\ o.kind = "event"
  BY <1>1 DEF Seen
<1> QED BY <1>3, <1>4, <1>5, <1>6, <1>7

\* Queueing the first deliveries of the alerts in A.
LEMMA QueuesFirst ==
  ASSUME NEW s, IsState(s), NEW A, A \subseteq AlertIds, \A a \in A : s.alerts[a].state # "none",
         NEW tr, NEW cp, NEW of, NEW n, NEW b, Counted(tr, cp, of, n, b), Sound(s, tr, cp, of, n, b)
  PROVE  LET t == QueuedFirst(s, A)
         IN  /\ IsState(t) /\ Sound(t, tr, cp, of, n, b)
             /\ t.alerts = s.alerts /\ t.channels = s.channels /\ t.routes = s.routes
             /\ t.silences = s.silences /\ t.migrated = s.migrated
             /\ \A d \in Ids : \/ t.deliveries[d] = s.deliveries[d]
                               \/ s.deliveries[d].state = "none" /\ t.deliveries[d].state = "pending"
<1> DEFINE R == UNION {Routed(s, s.routes, a) : a \in A}
           M == {m \in R : /\ s.marks[m] # s.alerts[m[1]].trans
                           /\ s.deliveries[<<m[1], m[2], s.alerts[m[1]].trans, 0>>].state = "none"}
           t == QueuedFirst(s, A)
<1>1. t = Queued(s, M, 0) BY DEF QueuedFirst
<1>2. \A m \in R : m \in Pairs /\ s.alerts[m[1]].state # "none"
  <2>1. ASSUME NEW a \in A, NEW m \in Routed(s, s.routes, a)
        PROVE  m \in Pairs /\ s.alerts[m[1]].state # "none"
    <3>1. m \in {a} \X Channels BY DEF Routed
    <3> QED BY <3>1 DEF Pairs
  <2> QED BY <2>1
<1>3. /\ M \subseteq Pairs /\ \A m \in M : s.alerts[m[1]].state # "none"
      /\ \A m \in M : s.marks[m] # s.alerts[m[1]].trans
  <2> HIDE DEF R
  <2> QED BY <1>2
<1>4. n \in Nat /\ n <= n /\ 0 <= n BY DEF Counted
<1> HIDE DEF t, M
<1>5. Sound(t, tr, cp, of, n, b) BY <1>1, <1>3, <1>4, QueuedIsSound
<1> QED BY <1>1, <1>5, Queues DEF t

\* Observe queues a delivery for an alert that is new or has changed.
LEMMA ObserveStep ==
  ASSUME OutboxInv, Bounded, NEW o, NEW ok, Observe(o, ok)
  PROVE  Safe
<1> DEFINE touched == {Subject(st, p, o[p]) : p \in Problems} \cap AlertIds
           after   == [a \in AlertIds |-> IF a \in touched THEN Seen(st.alerts[a], o[a[1]])
                                                          ELSE st.alerts[a]]
           changed == {a \in AlertIds : after[a].trans # st.alerts[a].trans}
           u == [st EXCEPT !.alerts = after]
           s == QueuedFirst(u, changed)
<1>1. /\ up /\ persisted(s, FALSE, ok)
      /\ born' = [p \in Problems |-> IF Raises(st, p, o[p]) THEN born[p] + 1 ELSE born[p]]
      /\ UNCHANGED <<up, worker, phase, serial, restarts, retries, history>>
  BY DEF Observe, Serving
<1>2. /\ IsState(st) /\ Counted(tries, copies, offered, serial, born)
      /\ Sound(st, tries, copies, offered, serial, born) /\ InFlight
  BY <1>1 DEF OutboxInv
<1>3. /\ serial \in Nat /\ born \in [Problems -> Nat] /\ born' \in [Problems -> Nat]
      /\ \A p \in Problems : born[p] <= born'[p]
  BY <1>1, <1>2 DEF Counted
<1>4. ASSUME NEW a \in AlertIds
      PROVE  /\ IsAlert(after[a])
             /\ after[a] = st.alerts[a] \/ (a \in touched /\ Progress(st.alerts[a], after[a], o[a[1]]))
  <2>1. IsAlert(st.alerts[a]) BY <1>2 DEF IsState
  <2>2. CASE a \in touched
    <3>1. Progress(st.alerts[a], Seen(st.alerts[a], o[a[1]]), o[a[1]]) BY <2>1, Sighted
    <3>2. after[a] = Seen(st.alerts[a], o[a[1]]) BY <2>2
    <3> HIDE DEF after, touched
    <3> QED BY <2>2, <3>1, <3>2 DEF Progress
  <2>3. CASE a \notin touched
    <3>1. after[a] = st.alerts[a] BY <2>3
    <3> QED BY <2>1, <3>1
  <2> QED BY <2>2, <2>3
<1>5. after = [a \in AlertIds |-> after[a]] OBVIOUS
<1>6. ASSUME NEW a \in AlertIds, after[a].state # "none", st.alerts[a].state = "none"
      PROVE  a[2] > born[a[1]] /\ a[2] <= born'[a[1]]
  <2>1. a \in touched /\ o[a[1]].kind \in {"active", "event"}
    <3> HIDE DEF after, touched
    <3> QED BY <1>4, <1>6 DEF Progress
  <2>2. PICK p \in Problems : a = Subject(st, p, o[p]) BY <2>1
  <2>3. CASE Raises(st, p, o[p])
    <3>1. a = <<p, born[p] + 1>> BY <2>2, <2>3 DEF Subject
    <3>2. born'[p] = born[p] + 1 /\ born[p] \in Nat BY <1>1, <1>3, <2>3
    <3> QED BY <3>1, <3>2
  <2>4. CASE ~Raises(st, p, o[p])
    <3>1. a = current(st, p) BY <2>2, <2>4 DEF Subject
    <3> QED BY <1>6, <3>1, Currents
  <2> QED BY <2>3, <2>4
<1> HIDE DEF after, touched
<1>7. /\ IsState(u) /\ u.alerts = after /\ u.deliveries = st.deliveries /\ u.marks = st.marks
      /\ u.migrated = st.migrated
  BY <1>2, <1>4, <1>5, Observed
<1> HIDE DEF u
<1>8. Sound(u, tries, copies, offered, serial, born')
  <2>1. ASSUME NEW a \in AlertIds PROVE Forward(st, u, a, born, born')
    <3>1. st.alerts[a].trans \in Nat BY <1>2 DEF IsState, IsAlert
    <3>2. st.alerts[a].state # "none" => after[a].trans >= st.alerts[a].trans
      BY <1>4, <3>1 DEF Progress
    <3> QED BY <1>6, <1>7, <3>2 DEF Forward
  <2>2. \A m \in Pairs : Marked(st, u, m) BY <1>7 DEF Marked
  <2>3. \A d \in Ids : Moves(st, u, d, tries, serial, born') BY <1>7 DEF Moves
  <2>4. Carries(st, u, tries, born, serial, born') BY <2>1, <2>2, <2>3 DEF Carries
  <2>5. serial <= serial BY <1>3
  <2> QED BY <1>2, <1>3, <1>7, <2>4, <2>5, SoundCarries
<1>9. changed \subseteq AlertIds /\ \A a \in changed : u.alerts[a].state # "none"
  BY <1>4, <1>7 DEF Progress
<1>10. Counted(tries, copies, offered, serial, born') BY <1>2, <1>3 DEF Counted
<1> HIDE DEF changed
<1>11. /\ IsState(s) /\ Sound(s, tries, copies, offered, serial, born') /\ s.migrated = u.migrated
       /\ \A d \in Ids : \/ s.deliveries[d] = u.deliveries[d]
                         \/ u.deliveries[d].state = "none" /\ s.deliveries[d].state = "pending"
  BY <1>7, <1>8, <1>9, <1>10, QueuesFirst
<1> HIDE DEF s
<1>12. \A d \in Ids : st.deliveries[d].state # "none" => s.deliveries[d] = st.deliveries[d]
  BY <1>7, <1>11
<1>13. flight # None => s.deliveries[flight].state = "sending" BY <1>2, <1>12 DEF InFlight
<1>14. OutboxInv'
  <2>1. UNCHANGED <<flight, reached, tries, copies, offered>> /\ serial' = serial
    BY <1>1 DEF worker, history
  <2>2. up /\ up' = up BY <1>1
  <2>3. serial' \in Nat /\ serial <= serial' /\ Sound(s, tries, copies, offered, serial', born')
    BY <1>3, <1>11, <2>1
  <2>4. st.migrated => s.migrated BY <1>7, <1>11
  <2> QED BY <1>1, <1>3, <1>11, <1>13, <2>1, <2>2, <2>3, <2>4, Saved
<1>15. Spares(s) BY <1>12 DEF Spares
<1>16. NothingForgotten BY <1>1, <1>11, <1>15, Forgets
<1>17. ChangesInOrder BY <1>1, <1>2 DEF ChangesInOrder, Pairs, history, Counted
<1> QED BY <1>14, <1>16, <1>17 DEF Safe

-----------------------------------------------------------------------------
(* The worker. *)

\* The settings, silences and alerts of two states are the same.
Settings(s, t) == /\ t.alerts = s.alerts /\ t.channels = s.channels /\ t.routes = s.routes
                  /\ t.silences = s.silences /\ t.migrated = s.migrated

\* What becomes of a delivery depends on these and on the delivery.
LEMMA EligibleAgain ==
  ASSUME NEW s, NEW t, Settings(s, t), NEW d, t.deliveries[d] = s.deliveries[d]
  PROVE  eligible(t, d) = eligible(s, d)
BY DEF Settings, eligible, silenced

\* What may be sent is about the alert as it is.
LEMMA SendsCurrent ==
  ASSUME NEW s, NEW d, eligible(s, d) = "send", d[1] # TestAlert
  PROVE  s.alerts[d[1]].state # "none" /\ s.alerts[d[1]].trans = d[3]
<1>1. CASE ~s.channels[d[2]].exists \/ ~s.channels[d[2]].enabled \/ s.channels[d[2]].gen # s.deliveries[d].gen
  BY <1>1 DEF eligible
<1>2. CASE /\ ~(~s.channels[d[2]].exists \/ ~s.channels[d[2]].enabled \/ s.channels[d[2]].gen # s.deliveries[d].gen)
           /\ \/ s.alerts[d[1]].state = "none" \/ s.alerts[d[1]].trans # d[3]
              \/ s.alerts[d[1]].state # s.deliveries[d].shows
  BY <1>2 DEF eligible
<1> QED BY <1>1, <1>2

\* Judged drops or postpones.
LEMMA Judges ==
  ASSUME NEW s, IsState(s), NEW C
  PROVE  LET t == Judged(s, C)
         IN  /\ IsState(t) /\ Settings(s, t) /\ t.marks = s.marks
             /\ \A d \in Ids : /\ t.deliveries[d].attempts = s.deliveries[d].attempts
                               /\ \/ t.deliveries[d].state = s.deliveries[d].state
                                  \/ /\ d \in C /\ eligible(s, d) = "drop"
                                     /\ t.deliveries[d].state = "suppressed"
<1> DEFINE D == [d \in Ids |->
                   IF d \notin C THEN s.deliveries[d]
                   ELSE CASE eligible(s, d) = "drop" -> Restate(s.deliveries[d], "suppressed")
                          [] eligible(s, d) = "send" -> s.deliveries[d]
                          [] OTHER -> Postpone(s, d)]
           t == Judged(s, C)
<1>1. t = [s EXCEPT !.deliveries = D] BY DEF Judged, Restate, Postpone
<1>2. ASSUME NEW d \in Ids
      PROVE  /\ IsDelivery(D[d]) /\ D[d].attempts = s.deliveries[d].attempts
             /\ \/ D[d].state = s.deliveries[d].state
                \/ d \in C /\ eligible(s, d) = "drop" /\ D[d].state = "suppressed"
  <2>1. IsDelivery(s.deliveries[d]) /\ "suppressed" \in States BY DEF IsState, States, Finished
  <2>2. CASE d \notin C \/ (eligible(s, d) # "drop" /\ eligible(s, d) = "send")
    <3>1. D[d] = s.deliveries[d] BY <2>2
    <3> HIDE DEF D
    <3> QED BY <2>1, <3>1
  <2>3. CASE d \in C /\ eligible(s, d) = "drop"
    <3>1. D[d] = Restate(s.deliveries[d], "suppressed") BY <2>3
    <3> HIDE DEF D
    <3> QED BY <2>1, <2>3, <3>1, Restated
  <2>4. CASE d \in C /\ eligible(s, d) # "drop" /\ eligible(s, d) # "send"
    <3>1. D[d] = Postpone(s, d) BY <2>4
    <3> HIDE DEF D
    <3> QED BY <3>1, Postponed
  <2> QED BY <2>2, <2>3, <2>4
<1>3. D = [d \in Ids |-> D[d]] OBVIOUS
<1> HIDE DEF D, t
<1>4. /\ IsState(t) /\ t.deliveries = D
      /\ t.alerts = s.alerts /\ t.channels = s.channels /\ t.routes = s.routes
      /\ t.silences = s.silences /\ t.marks = s.marks /\ t.migrated = s.migrated
  BY <1>1, <1>2, <1>3, Edited
<1> QED BY <1>2, <1>4 DEF Settings, t

\* Refreshed keeps what is outstanding or stuck.
LEMMA Refreshes ==
  ASSUME OutboxInv, up
  PROVE  /\ IsState(Refreshed) /\ Sound(Refreshed, tries, copies, offered, serial, born)
         /\ Settings(st, Refreshed)
         /\ \A d \in Ids :
              \/ st.deliveries[d].state = "sending" /\ Refreshed.deliveries[d].state = "uncertain"
              \/ st.deliveries[d].state = "none" /\ Refreshed.deliveries[d].state = "pending"
              \/ st.deliveries[d].state # "sending" /\ Refreshed.deliveries[d] = st.deliveries[d]
<1> DEFINE S == {d \in Ids : st.deliveries[d].state = "sending"}
           u == Moved(st, S, "uncertain")
           A == Active(st)
           t == QueuedFirst(u, A)
<1>1. Refreshed = t BY DEF Refreshed
<1>2. /\ IsState(st) /\ Counted(tries, copies, offered, serial, born)
      /\ Sound(st, tries, copies, offered, serial, born)
  BY DEF OutboxInv
<1>3. "uncertain" \in States BY DEF States, Stuck
<1>4. /\ IsState(u) /\ Settings(st, u) /\ u.marks = st.marks
      /\ \A d \in Ids : /\ d \notin S => u.deliveries[d] = st.deliveries[d]
                        /\ d \in S => /\ u.deliveries[d].state = "uncertain"
                                      /\ u.deliveries[d].attempts = st.deliveries[d].attempts
  <2> HIDE DEF S
  <2> QED BY <1>2, <1>3, Shifts DEF Settings
<1> HIDE DEF u
<1>5. Sound(u, tries, copies, offered, serial, born)
  <2>1. \A a \in AlertIds : /\ u.alerts[a].state # "none" => st.alerts[a].state # "none"
                            /\ u.alerts[a].trans = st.alerts[a].trans
    BY <1>4 DEF Settings
  <2>2. \A d \in Ids : /\ u.deliveries[d].state # "none" => st.deliveries[d].state # "none"
                       /\ u.deliveries[d].attempts = st.deliveries[d].attempts
                       /\ u.deliveries[d].state \in Outstanding => st.deliveries[d].state \in Outstanding
    BY <1>4 DEF Outstanding
  <2> QED BY <1>2, <1>4, <2>1, <2>2, MovedIsSound
<1>6. A \subseteq AlertIds /\ \A a \in A : u.alerts[a].state # "none"
  BY <1>4 DEF Active, Settings
<1> HIDE DEF A
<1>7. /\ IsState(t) /\ Sound(t, tries, copies, offered, serial, born) /\ Settings(u, t)
      /\ \A d \in Ids : \/ t.deliveries[d] = u.deliveries[d]
                        \/ u.deliveries[d].state = "none" /\ t.deliveries[d].state = "pending"
  BY <1>2, <1>4, <1>5, <1>6, QueuesFirst DEF Settings
<1> HIDE DEF t
<1>8. \A d \in Ids :
        \/ st.deliveries[d].state = "sending" /\ t.deliveries[d].state = "uncertain"
        \/ st.deliveries[d].state = "none" /\ t.deliveries[d].state = "pending"
        \/ st.deliveries[d].state # "sending" /\ t.deliveries[d] = st.deliveries[d]
  BY <1>4, <1>7
<1> QED BY <1>1, <1>4, <1>7, <1>8 DEF Settings

\* What the tick finds: what was refreshed, and the reminders.
LEMMA Prepares ==
  ASSUME OutboxInv, up, NEW ripe, ripe \subseteq Remindable(Refreshed), NEW n,
         n = IF ripe = {} THEN serial ELSE serial + 1, NEW s,
         s = IF ripe = {} THEN Refreshed ELSE Queued(Refreshed, ripe, serial + 1)
  PROVE  /\ IsState(s) /\ Sound(s, tries, copies, offered, n, born) /\ Settings(st, s)
         /\ \A d \in Ids :
              \/ st.deliveries[d].state = "sending" /\ s.deliveries[d].state = "uncertain"
              \/ st.deliveries[d].state = "none" /\ s.deliveries[d].state \in {"none", "pending"}
              \/ st.deliveries[d].state # "sending" /\ s.deliveries[d] = st.deliveries[d]
<1> DEFINE r == Refreshed
<1>1. /\ IsState(r) /\ Sound(r, tries, copies, offered, serial, born) /\ Settings(st, r)
      /\ \A d \in Ids :
           \/ st.deliveries[d].state = "sending" /\ r.deliveries[d].state = "uncertain"
           \/ st.deliveries[d].state = "none" /\ r.deliveries[d].state = "pending"
           \/ st.deliveries[d].state # "sending" /\ r.deliveries[d] = st.deliveries[d]
  BY Refreshes
<1>2. CASE ripe = {} BY <1>1, <1>2
<1>3. CASE ripe # {}
  <2>1. Counted(tries, copies, offered, serial, born) BY DEF OutboxInv
  <2>2. serial \in Nat /\ n = serial + 1 /\ serial <= n /\ serial < n /\ n \in Nat /\ n <= n /\ n > 0 /\ n # 0
    BY <1>3, <2>1 DEF Counted
  <2>3. s = Queued(r, ripe, n) BY <1>3, <2>2
  <2>4. ripe \subseteq Pairs /\ \A m \in ripe : r.alerts[m[1]].state # "none"
    <3> DEFINE act == {b \in AlertIds : r.alerts[b].state = "active"}
    <3>1. ASSUME NEW m \in ripe PROVE m \in Pairs /\ r.alerts[m[1]].state # "none"
      <4>1. PICK a \in act : m \in Routed(r, {x \in r.routes : x.repeat}, a) BY <3>1 DEF Remindable
      <4>2. m \in {a} \X Channels BY <4>1 DEF Routed
      <4> QED BY <4>1, <4>2 DEF Pairs
    <3> QED BY <3>1
  <2> HIDE DEF r
  <2>5. Sound(s, tries, copies, offered, n, born)
    BY <1>1, <2>1, <2>2, <2>3, <2>4, QueuedIsSound
  <2>6. /\ IsState(s) /\ Settings(r, s)
        /\ \A d \in Ids : \/ s.deliveries[d] = r.deliveries[d]
                          \/ r.deliveries[d].state = "none" /\ s.deliveries[d].state = "pending"
    BY <1>1, <2>3, Queues DEF Settings
  <2>7. Settings(st, s) BY <1>1, <2>6 DEF Settings
  <2> QED BY <1>1, <2>5, <2>6, <2>7
<1> QED BY <1>2, <1>3

\* A claimed delivery fits, and so does the rest.
LEMMA ClaimKeepsSound ==
  ASSUME NEW s, NEW t, IsState(s), IsState(t), t.alerts = s.alerts, t.marks = s.marks, NEW d \in Ids,
         NEW tr, NEW of, NEW n, NEW b,
         Counted(tries, copies, offered, n, b), Sound(s, tries, copies, offered, n, b),
         \A e \in Ids : e # d => t.deliveries[e] = s.deliveries[e] /\ tr[e] = tries[e],
         Fits(t, d, tr, copies, n, b),
         \A m \in Pairs : of[m] = offered[m] \/ Ordered(t, m, of, b)
  PROVE  Sound(t, tr, copies, of, n, b)
<1>1. n \in Nat /\ n <= n BY DEF Counted
<1>2. \A e \in Ids : e # d => /\ t.deliveries[e] = s.deliveries[e]
                             /\ tr[e] = tries[e] /\ copies[e] = copies[e]
  OBVIOUS
<1>3. d \in Ids => Fits(t, d, tr, copies, n, b) OBVIOUS
<1> QED BY <1>1, <1>2, <1>3, EditIsSound

\* t is s with a claim of d; tr and of are the counters with or without it.
Claims(s, t, d, tr, of) ==
    /\ t = [s EXCEPT !.deliveries = [s.deliveries EXCEPT ![d] = Take(s.deliveries[d])]]
    /\ tr = tries \/ tr = [tries EXCEPT ![d] = tries[d] + 1]
    /\ of = offered \/ (d[1] # TestAlert /\ of = [offered EXCEPT ![<<d[1], d[2]>>] = d[3]])

\* The claim of a delivery that is current, whether it is saved or not.
LEMMA ClaimIsSound ==
  ASSUME NEW s, IsState(s), NEW n, NEW b, Counted(tries, copies, offered, n, b),
         Sound(s, tries, copies, offered, n, b), NEW d \in Ids, s.deliveries[d].state \in Outstanding,
         d[1] # TestAlert => s.alerts[d[1]].state # "none" /\ s.alerts[d[1]].trans = d[3],
         NEW t, NEW tr, NEW of, Claims(s, t, d, tr, of)
  PROVE  /\ IsState(t) /\ t.alerts = s.alerts /\ t.migrated = s.migrated
         /\ t.deliveries[d].state = "sending" /\ copies[d] = 0
         /\ \A e \in Ids : e # d => t.deliveries[e] = s.deliveries[e]
         /\ Counted(tr, copies, of, n, b) /\ Sound(t, tr, copies, of, n, b)
         /\ \A m \in Pairs : of[m] >= offered[m]
<1> DEFINE x == s.deliveries[d]
           m0 == <<d[1], d[2]>>
           D == [s.deliveries EXCEPT ![d] = Take(x)]
<1>0. /\ t = [s EXCEPT !.deliveries = D] /\ (tr = tries \/ tr = [tries EXCEPT ![d] = tries[d] + 1])
      /\ of = offered \/ (d[1] # TestAlert /\ of = [offered EXCEPT ![m0] = d[3]])
  BY DEF Claims
<1>1. IsDelivery(x) BY DEF IsState
<1>2. IsDelivery(Take(x)) /\ Take(x).state = "sending" /\ Take(x).attempts = x.attempts + 1
  BY <1>1, Taken
<1>3. /\ D = [e \in Ids |-> D[e]] /\ \A e \in Ids : IsDelivery(D[e])
      /\ D[d] = Take(x) /\ \A e \in Ids : e # d => D[e] = s.deliveries[e]
  BY <1>2 DEF IsState
<1> HIDE DEF D
<1>4. /\ IsState(t) /\ t.deliveries = D /\ t.alerts = s.alerts /\ t.marks = s.marks
      /\ t.migrated = s.migrated
  BY <1>0, <1>3, Edited
<1>5. /\ tries \in [Ids -> Nat] /\ copies \in [Ids -> Nat] /\ offered \in [Pairs -> Nat]
      /\ n \in Nat /\ n <= n /\ b \in [Problems -> Nat] /\ MaxAttempts \in Nat
      /\ \A e \in Ids : tries[e] <= MaxAttempts /\ copies[e] <= 1 /\ (copies[e] > 0 => tries[e] > 0)
  BY AlertConstants DEF Counted
<1>6. /\ Past(s, d, n, b) /\ tries[d] <= x.attempts /\ x.attempts < MaxAttempts /\ copies[d] = 0
  <2>1. Fits(s, d, tries, copies, n, b) BY DEF Sound
  <2>2. x.state # "none" BY DEF Outstanding
  <2> QED BY <2>1, <2>2 DEF Fits
<1>7. /\ tr \in [Ids -> Nat] /\ tr[d] <= tries[d] + 1 /\ tr[d] <= x.attempts + 1
      /\ tries[d] <= tr[d]
      /\ \A e \in Ids : e # d => tr[e] = tries[e]
  BY <1>0, <1>1, <1>5, <1>6 DEF IsDelivery
<1>8. d[1] # TestAlert => m0 \in Pairs /\ d[1] \in AlertIds /\ d[3] \in Nat
  BY DEF Ids, Pairs
<1>9. of \in [Pairs -> Nat] /\ \A m \in Pairs : of[m] = offered[m] \/ (m = m0 /\ of[m] = d[3] /\ d[1] # TestAlert)
  BY <1>0, <1>5, <1>8
<1>10. ASSUME NEW m \in Pairs PROVE of[m] >= offered[m] /\ (of[m] = offered[m] \/ Ordered(t, m, of, b))
  <2>1. CASE of[m] = offered[m] BY <1>5, <2>1
  <2>2. CASE m = m0 /\ of[m] = d[3] /\ d[1] # TestAlert
    <3>1. Ordered(s, m, offered, b) BY DEF Sound
    <3>2. offered[m] <= d[3] /\ s.alerts[m[1]].state # "none" /\ s.alerts[m[1]].trans = d[3]
      BY <2>2, <3>1 DEF Ordered
    <3>3. Raised(s, m[1], b) BY <1>8, <2>2 DEF Sound
    <3>4. m[1][2] <= b[m[1][1]] BY <3>2, <3>3 DEF Raised
    <3>5. m[1][2] \in Nat /\ b[m[1][1]] \in Nat BY <1>5 DEF Pairs, AlertIds
    <3> QED BY <1>4, <1>5, <1>8, <2>2, <3>2, <3>4, <3>5 DEF Ordered
  <2> QED BY <1>9, <2>1, <2>2
<1>11. Counted(tr, copies, of, n, b)
  <2>1. \A e \in Ids : tr[e] <= MaxAttempts /\ copies[e] <= 1 /\ (copies[e] > 0 => tr[e] > 0)
    <3> TAKE e \in Ids
    <3>1. CASE e = d BY <1>1, <1>5, <1>6, <1>7, <3>1 DEF IsDelivery
    <3>2. CASE e # d BY <1>5, <1>7, <3>2
    <3> QED BY <3>1, <3>2
  <2> QED BY <1>5, <1>7, <1>9, <2>1 DEF Counted
<1>12. Fits(t, d, tr, copies, n, b)
  <2>1. Past(t, d, n, b) BY <1>4, <1>6 DEF Past
  <2>2. x.attempts + 1 <= MaxAttempts BY <1>1, <1>5, <1>6 DEF IsDelivery
  <2> QED BY <1>2, <1>3, <1>4, <1>7, <2>1, <2>2 DEF Fits, Outstanding
<1>13. Sound(t, tr, copies, of, n, b)
  <2>1. \A e \in Ids : e # d => t.deliveries[e] = s.deliveries[e] /\ tr[e] = tries[e] BY <1>3, <1>4, <1>7
  <2>2. \A m \in Pairs : of[m] = offered[m] \/ Ordered(t, m, of, b) BY <1>10
  <2>3. /\ IsState(s) /\ d \in Ids /\ Counted(tries, copies, offered, n, b)
        /\ Sound(s, tries, copies, offered, n, b)
    OBVIOUS
  <2> QED BY ONLY <1>4, <1>12, <2>1, <2>2, <2>3, ClaimKeepsSound
<1> QED BY <1>2, <1>3, <1>4, <1>6, <1>10, <1>11, <1>13

\* What the tick makes of the outbox before it claims a delivery.
LEMMA Readies ==
  ASSUME OutboxInv, up, NEW ripe, ripe \subseteq Remindable(Refreshed), NEW n,
         n = IF ripe = {} THEN serial ELSE serial + 1, NEW r,
         r = IF ripe = {} THEN Refreshed ELSE Queued(Refreshed, ripe, serial + 1),
         NEW C, C \subseteq {d \in Ids : r.deliveries[d].state \in Outstanding},
         NEW s, s = Judged(r, C)
  PROVE  /\ IsState(s) /\ s.migrated = st.migrated /\ Spares(s)
         /\ n \in Nat /\ serial <= n /\ Counted(tries, copies, offered, n, born)
         /\ Sound(s, tries, copies, offered, n, born)
         /\ \A d \in C : eligible(r, d) = "send" =>
               /\ s.deliveries[d].state \in Outstanding
               /\ d[1] # TestAlert => s.alerts[d[1]].state # "none" /\ s.alerts[d[1]].trans = d[3]
<1>1. /\ IsState(r) /\ Sound(r, tries, copies, offered, n, born) /\ Settings(st, r)
      /\ \A d \in Ids :
           \/ st.deliveries[d].state = "sending" /\ r.deliveries[d].state = "uncertain"
           \/ st.deliveries[d].state = "none" /\ r.deliveries[d].state \in {"none", "pending"}
           \/ st.deliveries[d].state # "sending" /\ r.deliveries[d] = st.deliveries[d]
  BY Prepares
<1>2. /\ IsState(s) /\ Settings(r, s) /\ s.marks = r.marks
      /\ \A d \in Ids : /\ s.deliveries[d].attempts = r.deliveries[d].attempts
                        /\ \/ s.deliveries[d].state = r.deliveries[d].state
                           \/ /\ d \in C /\ eligible(r, d) = "drop"
                              /\ s.deliveries[d].state = "suppressed"
  BY <1>1, Judges
<1>3. Counted(tries, copies, offered, serial, born) BY DEF OutboxInv
<1>4. n \in Nat /\ serial <= n BY <1>3 DEF Counted
<1>5. Counted(tries, copies, offered, n, born) BY <1>3, <1>4 DEF Counted
<1>6. Sound(s, tries, copies, offered, n, born)
  <2>1. \A a \in AlertIds : /\ s.alerts[a].state # "none" => r.alerts[a].state # "none"
                            /\ s.alerts[a].trans = r.alerts[a].trans
    BY <1>2 DEF Settings
  <2>2. \A d \in Ids : /\ s.deliveries[d].state # "none" => r.deliveries[d].state # "none"
                       /\ s.deliveries[d].attempts = r.deliveries[d].attempts
                       /\ s.deliveries[d].state \in Outstanding => r.deliveries[d].state \in Outstanding
    BY <1>2 DEF Outstanding
  <2>3. IsState(r) /\ IsState(s) /\ s.marks = r.marks /\ Sound(r, tries, copies, offered, n, born)
    BY <1>1, <1>2
  <2> QED BY ONLY <1>5, <2>1, <2>2, <2>3, MovedIsSound
<1>7. Spares(s)
  <2>1. SUFFICES ASSUME NEW d \in Ids, st.deliveries[d].state \notin {"none"} \cup Finished
        PROVE  /\ s.deliveries[d].state # "none"
               /\ s.deliveries[d].state \in Finished
                  => st.deliveries[d].state \in Outstanding /\ eligible(st, d) = "drop"
    BY DEF Spares
  <2>2. r.deliveries[d].state \notin {"none"} \cup Finished BY <1>1, <2>1 DEF Finished
  <2>3. CASE s.deliveries[d].state = r.deliveries[d].state BY <2>2, <2>3
  <2>4. CASE d \in C /\ eligible(r, d) = "drop" /\ s.deliveries[d].state = "suppressed"
    <3>1. r.deliveries[d].state \in Outstanding BY <2>4
    <3>2. r.deliveries[d] = st.deliveries[d] BY <1>1, <2>1, <3>1 DEF Outstanding
    <3>3. eligible(r, d) = eligible(st, d) BY <1>1, <3>2, EligibleAgain
    <3> QED BY <2>4, <3>1, <3>2, <3>3
  <2> QED BY <1>2, <2>3, <2>4
<1>8. ASSUME NEW d \in C, eligible(r, d) = "send"
      PROVE  /\ s.deliveries[d].state \in Outstanding
             /\ d[1] # TestAlert => s.alerts[d[1]].state # "none" /\ s.alerts[d[1]].trans = d[3]
  <2>1. d \in Ids /\ r.deliveries[d].state \in Outstanding OBVIOUS
  <2>2. s.deliveries[d].state = r.deliveries[d].state BY <1>2, <1>8, <2>1
  <2>3. d[1] # TestAlert => r.alerts[d[1]].state # "none" /\ r.alerts[d[1]].trans = d[3]
    BY <1>8, SendsCurrent
  <2> QED BY <1>2, <2>1, <2>2, <2>3 DEF Settings
<1> QED BY <1>1, <1>2, <1>4, <1>5, <1>6, <1>7, <1>8 DEF Settings

\* The claim of d is written, and d is sent if the write succeeded.
LEMMA ClaimStep ==
  ASSUME OutboxInv, Bounded, up, st.migrated, flight = None,
         NEW s, IsState(s), s.migrated = st.migrated, Spares(s),
         NEW n \in Nat, serial <= n, Counted(tries, copies, offered, n, born),
         Sound(s, tries, copies, offered, n, born), NEW d \in Ids, s.deliveries[d].state \in Outstanding,
         d[1] # TestAlert => s.alerts[d[1]].state # "none" /\ s.alerts[d[1]].trans = d[3],
         NEW t, t = [s EXCEPT !.deliveries = [s.deliveries EXCEPT ![d] = Take(s.deliveries[d])]],
         NEW ok, persisted(t, TRUE, ok),
         flight' = IF Claimed THEN d ELSE None,
         tries' = IF Claimed THEN [tries EXCEPT ![d] = tries[d] + 1] ELSE tries,
         offered' = IF Claimed /\ d[1] # TestAlert
                    THEN [offered EXCEPT ![<<d[1], d[2]>>] = d[3]] ELSE offered,
         serial' = n, UNCHANGED <<up, reached, born, copies>>
  PROVE  Safe
<1>1. Claims(s, t, d, tries', offered') BY DEF Claims
<1>2. /\ IsState(s) /\ Counted(tries, copies, offered, n, born)
      /\ Sound(s, tries, copies, offered, n, born) /\ d \in Ids
      /\ s.deliveries[d].state \in Outstanding
      /\ d[1] # TestAlert => s.alerts[d[1]].state # "none" /\ s.alerts[d[1]].trans = d[3]
  OBVIOUS
<1>3. /\ IsState(t) /\ t.alerts = s.alerts /\ t.migrated = s.migrated
      /\ t.deliveries[d].state = "sending" /\ copies[d] = 0
      /\ \A e \in Ids : e # d => t.deliveries[e] = s.deliveries[e]
      /\ Counted(tries', copies, offered', n, born) /\ Sound(t, tries', copies, offered', n, born)
      /\ \A m \in Pairs : offered'[m] >= offered[m]
  BY ONLY <1>1, <1>2, ClaimIsSound
<1>4. Spares(t)
  <2>1. t.deliveries[d].state \notin {"none"} \cup Finished BY <1>3 DEF Finished
  <2>2. ASSUME NEW e \in Ids, st.deliveries[e].state \notin {"none"} \cup Finished
        PROVE  /\ t.deliveries[e].state # "none"
               /\ t.deliveries[e].state \in Finished
                  => Roomy(t) \/ (st.deliveries[e].state \in Outstanding /\ eligible(st, e) = "drop")
    <3>1. CASE e = d BY <2>1, <3>1
    <3>2. CASE e # d
      <4>1. t.deliveries[e] = s.deliveries[e] BY <1>3, <3>2
      <4>2. /\ s.deliveries[e].state # "none"
            /\ s.deliveries[e].state \in Finished
               => Roomy(s) \/ (st.deliveries[e].state \in Outstanding /\ eligible(st, e) = "drop")
        BY <2>2 DEF Spares
      <4>3. Held(t) = Held(s)
        <5>1. s.deliveries[d].state # "none" BY DEF Outstanding
        <5> QED BY <1>3, <5>1 DEF Held
      <4> QED BY <4>1, <4>2, <4>3 DEF Roomy
    <3> QED BY <3>1, <3>2
  <2> QED BY <2>2 DEF Spares
<1>5. NothingForgotten BY <1>3, <1>4, Forgets
<1>6. ChangesInOrder BY <1>3 DEF ChangesInOrder, Pairs
<1>7. OutboxInv'
  <2>1. CASE degraded'
    <3>1. UNCHANGED <<flight, reached, tries, copies, offered>> BY <2>1 DEF Claimed
    <3>2. Sound(t, tries, copies, offered, serial', born') BY <1>3, <3>1
    <3>3. /\ serial' \in Nat /\ serial <= serial' /\ born' \in [Problems -> Nat]
          /\ \A p \in Problems : born[p] <= born'[p]
      BY DEF Counted
    <3>4. up /\ up' = up /\ IsState(t) /\ persisted(t, TRUE, ok) /\ (st.migrated => t.migrated)
          /\ OutboxInv /\ (flight # None => t.deliveries[flight].state = "sending")
      BY <1>3
    <3> QED BY ONLY <3>1, <3>2, <3>3, <3>4, Saved
  <2>2. CASE ~degraded'
    <3>1. OutboxInv /\ up /\ (~degraded => disk = st) /\ IsState(t) BY <1>3 DEF OutboxInv
    <3>2. PICK w \in Trimmed(t) : st' = w /\ disk' = w /\ Roomy(w)
      <4>1. PICK w \in Trimmed(t) :
              /\ st' \in {st, w} /\ disk' \in {disk, w}
              /\ ~degraded' => st' = w /\ disk' = w
              /\ Roomy(w) \/ (st' = st /\ disk' = disk /\ degraded' = TRUE)
        BY <3>1, Persists
      <4> QED BY <2>2, <4>1
    <3>3. IsState(w) /\ w.deliveries[d] = t.deliveries[d] /\ w.migrated = t.migrated
      <4>1. /\ \A e \in Ids : \/ w.deliveries[e] = t.deliveries[e]
                             \/ /\ w.deliveries[e] = NoDelivery
                                /\ t.deliveries[e].state \in Finished
            /\ IsState(w) /\ w.migrated = t.migrated
        <5>1. IsState(t) /\ w \in Trimmed(t) BY <1>3
        <5> QED BY ONLY <5>1, Trims
      <4>2. t.deliveries[d].state \notin Finished BY <1>3 DEF Finished
      <4> QED BY ONLY <4>1, <4>2, d \in Ids
    <3>4. Sound(w, tries', copies, offered', n, born) BY <1>3, <3>2, TrimmedIsSound
    <3>5. flight' = d /\ tries' = [tries EXCEPT ![d] = tries[d] + 1] BY <2>2 DEF Claimed
    <3>6. tries'[d] > 0 BY <3>5 DEF Counted
    <3>7. InFlight' BY <1>3, <3>2, <3>3, <3>5, <3>6 DEF InFlight
    <3>8. Counted(tries, copies, offered, serial, born)' BY <1>3 DEF Counted
    <3>9. Sound(st', tries', copies', offered', serial', born') BY <3>2, <3>4
    <3> QED BY <3>2, <3>3, <3>7, <3>8, <3>9 DEF OutboxInv, Roomy, Held
  <2> QED BY <2>1, <2>2
<1> QED BY <1>5, <1>6, <1>7 DEF Safe

\* A tick queues, drops and postpones, and claims at most one delivery.
LEMMA TickStep ==
  ASSUME OutboxInv, Bounded, NEW due, NEW ripe, NEW ok, Tick(due, ripe, ok)
  PROVE  Safe
<1> DEFINE r == IF ripe = {} THEN Refreshed ELSE Queued(Refreshed, ripe, serial + 1)
           C == {d \in Ids : r.deliveries[d].state \in Outstanding /\ (r.deliveries[d].wait => d \in due)}
           s == Judged(r, C)
           E == {d \in C : eligible(r, d) = "send"}
           n == IF ripe = {} THEN serial ELSE serial + 1
           D(d) == [s.deliveries EXCEPT ![d] = Take(s.deliveries[d])]
<1>1. /\ up /\ st.migrated /\ flight = None /\ ripe \subseteq Remindable(Refreshed)
      /\ serial' = n
      /\ UNCHANGED <<up, reached, phase, born, restarts, retries, copies>>
      /\ \/ E = {} /\ persisted(s, TRUE, ok) /\ UNCHANGED <<flight, tries, offered>>
         \/ \E d \in E :
              /\ persisted([s EXCEPT !.deliveries = D(d)], TRUE, ok)
              /\ flight' = IF Claimed THEN d ELSE None
              /\ tries' = IF Claimed THEN [tries EXCEPT ![d] = tries[d] + 1] ELSE tries
              /\ offered' = IF Claimed /\ d[1] # TestAlert
                            THEN [offered EXCEPT ![<<d[1], d[2]>>] = d[3]] ELSE offered
  BY DEF Tick, Serving, persist, Take
<1>2. C \subseteq {d \in Ids : r.deliveries[d].state \in Outstanding} OBVIOUS
<1> HIDE DEF r, C, n, s
<1>3. /\ IsState(s) /\ s.migrated = st.migrated /\ Spares(s)
      /\ n \in Nat /\ serial <= n /\ Counted(tries, copies, offered, n, born)
      /\ Sound(s, tries, copies, offered, n, born)
      /\ \A d \in C : eligible(r, d) = "send" =>
            /\ s.deliveries[d].state \in Outstanding
            /\ d[1] # TestAlert => s.alerts[d[1]].state # "none" /\ s.alerts[d[1]].trans = d[3]
  <2>1. /\ n = (IF ripe = {} THEN serial ELSE serial + 1)
        /\ r = (IF ripe = {} THEN Refreshed ELSE Queued(Refreshed, ripe, serial + 1))
        /\ s = Judged(r, C)
    BY DEF r, n, s
  <2>2. OutboxInv /\ up /\ ripe \subseteq Remindable(Refreshed) BY <1>1
  <2> QED BY ONLY <1>2, <2>1, <2>2, Readies
<1>4. CASE persisted(s, TRUE, ok) /\ UNCHANGED <<flight, tries, offered>>
  <2>1. /\ serial' \in Nat /\ serial <= serial' /\ born' \in [Problems -> Nat]
        /\ \A p \in Problems : born[p] <= born'[p]
    BY <1>1, <1>3 DEF Counted
  <2>2. Sound(s, tries, copies, offered, serial', born') BY <1>1, <1>3
  <2>3. /\ OutboxInv /\ up /\ up' = up /\ IsState(s) /\ persisted(s, TRUE, ok)
        /\ UNCHANGED <<flight, reached, tries, copies, offered>>
        /\ (st.migrated => s.migrated) /\ (flight # None => s.deliveries[flight].state = "sending")
    BY <1>1, <1>3, <1>4
  <2>4. OutboxInv' BY ONLY <2>1, <2>2, <2>3, Saved
  <2>5. NothingForgotten BY <1>1, <1>3, <1>4, Forgets
  <2>6. ChangesInOrder BY <1>3, <1>4 DEF ChangesInOrder, Pairs, Counted
  <2> QED BY <2>4, <2>5, <2>6 DEF Safe
<1>5. CASE \E d \in E :
              /\ persisted([s EXCEPT !.deliveries = D(d)], TRUE, ok)
              /\ flight' = IF Claimed THEN d ELSE None
              /\ tries' = IF Claimed THEN [tries EXCEPT ![d] = tries[d] + 1] ELSE tries
              /\ offered' = IF Claimed /\ d[1] # TestAlert
                            THEN [offered EXCEPT ![<<d[1], d[2]>>] = d[3]] ELSE offered
  <2>1. PICK d \in E :
              /\ persisted([s EXCEPT !.deliveries = D(d)], TRUE, ok)
              /\ flight' = IF Claimed THEN d ELSE None
              /\ tries' = IF Claimed THEN [tries EXCEPT ![d] = tries[d] + 1] ELSE tries
              /\ offered' = IF Claimed /\ d[1] # TestAlert
                            THEN [offered EXCEPT ![<<d[1], d[2]>>] = d[3]] ELSE offered
    BY <1>5
  <2>2. d \in Ids /\ d \in C /\ eligible(r, d) = "send" BY <1>2
  <2>3. /\ s.deliveries[d].state \in Outstanding
        /\ d[1] # TestAlert => s.alerts[d[1]].state # "none" /\ s.alerts[d[1]].trans = d[3]
    BY <1>3, <2>2
  <2>4. UNCHANGED <<up, reached, born, copies>> BY <1>1
  <2> QED BY <1>1, <1>3, <2>1, <2>2, <2>3, <2>4, ClaimStep
<1> QED BY <1>1, <1>4, <1>5

-----------------------------------------------------------------------------
(* The theorems. *)

\* Every step keeps the invariant, sends in order and forgets nothing.
LEMMA NextStep ==
  ASSUME OutboxInv, Bounded, [Next]_vars
  PROVE  Safe
<1>1. ASSUME NEW ok, Monitor(ok) PROVE Safe
  BY <1>1, ObserveStep, MarkStaleStep DEF Monitor
<1>2. ASSUME NEW ok, Deliver(ok) PROVE Safe
  <2>1. CASE \E due \in SUBSET Waiting, ripe \in SUBSET Remindable(Refreshed) : Tick(due, ripe, ok)
    BY <2>1, TickStep
  <2>2. CASE \E outcome \in {"accepted", "rejected", "unknown"} : Complete(outcome, ok)
    BY <2>2, CompleteStep
  <2> QED BY <1>2, <2>1, <2>2 DEF Deliver
<1>3. ASSUME NEW ok, Administer(ok) PROVE Safe
  <2>1. CASE \E c \in Channels, e \in BOOLEAN : SaveChannel(c, e, ok) BY <2>1, SaveChannelStep
  <2>2. CASE \E c \in Channels : DeleteChannel(c, ok) \/ TestChannel(c, ok)
    BY <2>2, DeleteChannelStep, TestStep
  <2>3. CASE \E R \in RouteSets : SaveRoutes(R, ok) BY <2>3, SaveRoutesStep
  <2>4. CASE \E q \in Silences : AddSilence(q, ok) \/ DeleteSilence(q, ok)
    BY <2>4, AddSilenceStep, DeleteSilenceStep
  <2>5. CASE \E d \in Ids : RetryDelivery(d, ok) BY <2>5, RetryStep
  <2>6. CASE \E c \in LegacyTelegram, e \in BOOLEAN : ImportLegacyTelegram(c, e, ok)
    BY <2>6, ImportStep, AlertConstants
  <2> QED BY <1>3, <2>1, <2>2, <2>3, <2>4, <2>5, <2>6 DEF Administer
<1>4. ASSUME NEW ok, Open(ok) PROVE Safe BY <1>4, OpenStep
<1>5. CASE Reach BY <1>5, ReachStep
<1>6. CASE Crash BY <1>6, CrashStep
<1>7. CASE \E q \in Silences : Elapse(q)
  <2>1. UNCHANGED <<st, disk, degraded, up, worker, born, serial, history>> BY <1>7 DEF Elapse
  <2> QED BY <2>1, IdleStep
<1>8. CASE UNCHANGED vars
  <2>1. UNCHANGED <<st, disk, degraded, up, worker, born, serial, history>> BY <1>8 DEF vars, env
  <2> QED BY <2>1, IdleStep
<1> QED BY <1>1, <1>2, <1>3, <1>4, <1>5, <1>6, <1>7, <1>8 DEF Next

\* What the invariant says of the counts and of the claims.
LEMMA InvHonest == ASSUME OutboxInv PROVE OutboxIsHonest
<1>1. Counted(tries, copies, offered, serial, born) /\ InFlight BY DEF OutboxInv
<1>2. AtMostOneCopy BY <1>1 DEF Counted, AtMostOneCopy
<1>3. AttemptsAreBounded BY <1>1 DEF Counted, AttemptsAreBounded
<1>4. ClaimIsDurable BY <1>1 DEF InFlight, ClaimIsDurable
<1> QED BY <1>2, <1>3, <1>4 DEF OutboxIsHonest

\* Polls, restarts, failed writes and trimming never make the receiver get a change of an alert
\* twice, no delivery is sent more often than the limit allows between two retries of an
\* operator, and what is being sent is on disk as a claim (Center.DeliverOnce, Open, RetryDelivery
\* and trimHistory of internal/alertcenter/center.go): for every number of problems, channels,
\* alerts, failures and restarts.
THEOREM OutboxHonest ==
  ASSUME Bounded
  PROVE  Spec => []OutboxIsHonest
<1>1. OutboxInv => OutboxIsHonest BY InvHonest
<1>2. Init => OutboxInv BY OutboxInit
<1>3. OutboxInv /\ [Next]_vars => OutboxInv' BY NextStep DEF Safe
<1> QED BY <1>1, <1>2, <1>3, PTL DEF Spec

\* The changes of an alert are sent to a channel in their order, and no delivery that is stuck,
\* being sent or still current is ever forgotten (Center.DeliverOnce, eligible and trimHistory of
\* internal/alertcenter/center.go): for every number of problems, channels, alerts, failures and
\* restarts.
THEOREM OutboxOrderly ==
  ASSUME Bounded
  PROVE  Spec => OutboxIsOrderly
<1>1. Init => OutboxInv BY OutboxInit
<1>2. OutboxInv /\ [Next]_vars => OutboxInv' BY NextStep DEF Safe
<1>3. OutboxInv /\ [Next]_vars => ChangesInOrder /\ NothingForgotten BY NextStep DEF Safe
<1> QED BY <1>1, <1>2, <1>3, PTL DEF Spec, OutboxIsOrderly
=============================================================================
