--------------------------- MODULE AlertDelivery ----------------------------
(***************************************************************************)
(* The alert center of internal/alertcenter: problems observed by the      *)
(* monitor, routes, silences and channels set by administrators, and the   *)
(* durable outbox whose single worker claims a delivery, sends it outside  *)
(* the mutex and records the result.                                       *)
(*                                                                         *)
(* Alerts, marks, channels, routes, silences and deliveries are one secret *)
(* of the registry, written as a whole: `st' is Center.state and `disk'    *)
(* the stored secret.  Every method runs under Center.mu and is one action *)
(* on a copy of `st' that ends in persist; only DeliverOnce gives the      *)
(* mutex up, around the call of the sender.                                *)
(*                                                                         *)
(* Times appear as what the code asks of them: an order (`clock', for      *)
(* CreatedAt and LastChanged), a delivery that waits for a time that may   *)
(* or may not have come, a silence that is in its window or not.           *)
(***************************************************************************)
EXTENDS Naturals, FiniteSets

CONSTANTS
    Problems,        \* fingerprints: a rule on a resource
    Events,          \* the problems that are events (the end of a job)
    NoProblem,       \* the alert of a channel test
    Channels,        \* channel ids
    Silences,        \* silences, each with its window of time
    Selects,         \* per silence: the problems its selectors match
    Severities,      \* the severities observed, as scores 1 (info) to 3 (critical)
    RouteSets,       \* the route configurations administrators save
    LegacyTelegram,  \* the channel of an older Telegram configuration, if any
    MaxAlerts,       \* bound: alerts raised per problem
    MaxTransitions,  \* bound: changes of one alert
    MaxSerials,      \* bound: reminders and tests
    MaxEdits,        \* bound: generations of a channel
    MaxFailures,     \* bound: failed writes of the secret
    MaxRestarts,     \* bound: restarts of the process
    MaxRetries,      \* bound: retries by operators
    MaxTrouble,      \* bound: failures, restarts, retries, reminders and tests together
    MaxAttempts,     \* attempts before a delivery has failed (5)
    MaxDeliveries,   \* maxDeliveries (2000)
    MaxActive,       \* maxActive (5000)
    MaxResolved      \* resolved alerts that are kept (1000)

ASSUME AlertConstants ==
    /\ NoProblem \notin Problems
    /\ Events \subseteq Problems
    /\ Selects \in [Silences -> SUBSET Problems]
    /\ LegacyTelegram \subseteq Channels
    /\ Severities \subseteq 1..3
    /\ MaxAlerts \in Nat /\ MaxTransitions \in Nat /\ MaxSerials \in Nat
    /\ MaxEdits \in Nat /\ MaxFailures \in Nat /\ MaxRestarts \in Nat /\ MaxRetries \in Nat
    /\ MaxTrouble \in Nat
    /\ MaxAttempts \in Nat \ {0}
    /\ MaxDeliveries \in Nat /\ MaxActive \in Nat /\ MaxResolved \in Nat

VARIABLES
    st,        \* Center.state
    disk,      \* the secret "alert-center/state"
    degraded,  \* Center.health # nil
    up,        \* a process has opened the center
    flight,    \* the delivery that is being sent (Center.inFlight)
    reached,   \* the request of `flight' has been accepted by its receiver
    phase,     \* per silence: before, in or after its window
    clock,     \* stamp of the next change that is stored
    born,      \* per problem: ids given to alerts so far
    serial,    \* reminders and tests made so far
    failures,  \* failed writes so far
    restarts,  \* restarts so far
    retries,   \* retries by operators so far
    copies,    \* history: per delivery, receptions since an operator retried it
    tries,     \* history: per delivery, sends since an operator retried it
    offered    \* history: per alert and channel, the transition sent last

env == <<phase, born, serial, clock, retries>>
history == <<copies, tries, offered>>
worker == <<flight, reached>>
vars == <<st, disk, degraded, up, worker, env, failures, restarts, history>>

AlertIds == Problems \X (1..MaxAlerts)
TestAlert == <<NoProblem, 0>>

\* A delivery is named by alert, channel, transition and slot: the first one of
\* a transition has slot 0, and reminders and tests are unique.
Ids == (AlertIds \X Channels \X (1..MaxTransitions) \X (0..MaxSerials))
       \cup ({TestAlert} \X Channels \X {0} \X (1..MaxSerials))

None == <<TestAlert, 0>>

Alert == [state    : {"none", "active", "resolved"},
          severity : 0..3,
          trans    : 0..MaxTransitions,
          stale    : BOOLEAN,
          event    : BOOLEAN,
          changed  : Nat]

NoAlert == [state |-> "none", severity |-> 0, trans |-> 0, stale |-> FALSE,
            event |-> FALSE, changed |-> 0]

Route == [enabled : BOOLEAN, min : 1..3, resolved : BOOLEAN, repeat : BOOLEAN,
          problems : SUBSET Problems, channels : SUBSET Channels]

Outstanding == {"pending", "retrying"}
Finished    == {"sent", "suppressed"}
Stuck       == {"failed", "uncertain"}

Delivery == [state    : {"none", "sending"} \cup Outstanding \cup Finished \cup Stuck,
             attempts : 0..MaxAttempts,
             gen      : 0..MaxEdits,
             shows    : {"active", "resolved", "test"},
             wait     : BOOLEAN,   \* NextAttemptAt was set to a later time
             silenced : BOOLEAN,   \* ErrorCode = "silenced"
             created  : Nat]

NoDelivery == [state |-> "none", attempts |-> 0, gen |-> 0, shows |-> "test",
               wait |-> FALSE, silenced |-> FALSE, created |-> 0]

EmptyState == [alerts     |-> [a \in AlertIds |-> NoAlert],
               channels   |-> [c \in Channels |-> [gen |-> 0, exists |-> FALSE, enabled |-> FALSE]],
               routes     |-> {},
               silences   |-> {},
               deliveries |-> [d \in Ids |-> NoDelivery],
               marks      |-> [m \in AlertIds \X Channels |-> 0],
               migrated   |-> LegacyTelegram = {}]

\* The center is opened and the old settings are imported: the cluster is served, with its
\* monitor, its worker and its administrators.
Serving == up /\ st.migrated

\* The common budget is not spent.
Spare == failures + restarts + retries + serial < MaxTrouble

Held(s) == {d \in Ids : s.deliveries[d].state # "none"}

\* The deliveries in S get state x and its error code.
Moved(s, S, x) ==
    [s EXCEPT !.deliveries = [d \in Ids |->
        IF d \in S THEN [s.deliveries[d] EXCEPT !.state = x, !.silenced = FALSE]
                   ELSE s.deliveries[d]]]

-----------------------------------------------------------------------------
(* Storage. *)

\* The n oldest members of S by the stamp age gives them; equal stamps in any
\* order.
Oldest(S, n, age) ==
    {T \in SUBSET S : /\ Cardinality(T) = n
                      /\ \A d \in T, e \in S \ T : age[d] <= age[e]}

Excess(n, max) == IF n > max THEN n - max ELSE 0
Least(m, n)    == IF m < n THEN m ELSE n

\* Defect for mutation: failed and uncertain deliveries may go as well.
TrimmableWithStuck(s) == {d \in Ids : s.deliveries[d].state \in Finished \cup Stuck}

\* The deliveries trimHistory may remove.
Trimmable(s) == {d \in Ids : s.deliveries[d].state \in Finished}

\* The state without the alerts A, their dispatch marks and the deliveries D.
Without(s, A, D) ==
    [s EXCEPT !.alerts = [a \in AlertIds |-> IF a \in A THEN NoAlert ELSE s.alerts[a]],
              !.marks = [m \in AlertIds \X Channels |->
                           IF m[1] \in A \/ s.alerts[m[1]].state = "none" THEN 0 ELSE s.marks[m]],
              !.deliveries = [d \in Ids |-> IF d \in D THEN NoDelivery ELSE s.deliveries[d]]]

\* trimHistory: the oldest resolved alerts beyond the limit go with their
\* dispatch marks; the oldest finished deliveries go as far as needed.
Trimmed(s) ==
    LET resolved == {a \in AlertIds : s.alerts[a].state = "resolved"}
        changed == [a \in resolved |-> s.alerts[a].changed]
        created == [d \in Trimmable(s) |-> s.deliveries[d].created]
        spare == Least(Cardinality(Trimmable(s)), Excess(Cardinality(Held(s)), MaxDeliveries))
    IN  UNION {{Without(s, A, D) : D \in Oldest(Trimmable(s), spare, created)} :
                  A \in Oldest(resolved, Excess(Cardinality(resolved), MaxResolved), changed)}

TooLarge(s) == \/ Cardinality({a \in AlertIds : s.alerts[a].state = "active"}) > MaxActive
               \/ Cardinality(Held(s)) > MaxDeliveries

\* PutSecret: memory follows only a successful write, and a failed one may
\* still have been committed.
put(t, ok) ==
    \/ /\ ok
       /\ st' = t /\ disk' = t
       /\ degraded' = FALSE
       /\ UNCHANGED failures
    \/ /\ ~ok /\ failures < MaxFailures /\ Spare
       /\ disk' \in {disk, t}
       /\ degraded' = TRUE
       /\ failures' = failures + 1
       /\ UNCHANGED st

\* persist: nothing is written over the limits, or if `same' and nothing has
\* changed.  It succeeded exactly if the center is healthy afterwards.
persisted(s, same, ok) ==
    \E t \in Trimmed(s) :
        \/ TooLarge(t) /\ degraded' = TRUE /\ UNCHANGED <<st, disk, failures>>
        \/ ~TooLarge(t) /\ ~(same /\ ~degraded /\ t = st) /\ put(t, ok)
        \/ ~TooLarge(t) /\ same /\ ~degraded /\ t = st /\ ok
           /\ UNCHANGED <<st, disk, degraded, failures>>

persist(s, ok) == persisted(s, TRUE, ok)

-----------------------------------------------------------------------------
(* Routing. *)

\* matches.
matches(r, p, a) ==
    /\ r.enabled
    /\ a.severity >= r.min
    /\ a.state = "resolved" /\ ~a.event => r.resolved
    /\ p \in r.problems

silenced(s, p) == \E q \in s.silences : phase[q] = "in" /\ p \in Selects[q]

\* The pairs <<alert, channel>> some route in R sends the alert to.
Routed(s, R, a) ==
    {m \in {a} \X Channels :
        /\ s.channels[m[2]].exists /\ s.channels[m[2]].enabled
        /\ \E r \in R : matches(r, a[1], s.alerts[a]) /\ m[2] \in r.channels}

\* The deliveries of queueRoutes for the pairs M: they are pending, silenced
\* ones until the end of the silence, and the marks remember the transition.
Queued(s, M, slot) ==
    LET id(m) == <<m[1], m[2], s.alerts[m[1]].trans, slot>>
        new   == {id(m) : m \in M}
    IN  [s EXCEPT
          !.deliveries = [d \in Ids |->
              IF d \in new /\ s.deliveries[d].state = "none"
              THEN [state |-> "pending", attempts |-> 0, gen |-> s.channels[d[2]].gen,
                    shows |-> s.alerts[d[1]].state, wait |-> silenced(s, d[1][1]),
                    silenced |-> silenced(s, d[1][1]), created |-> clock]
              ELSE s.deliveries[d]],
          !.marks = [m \in AlertIds \X Channels |->
              IF m \in M THEN s.alerts[m[1]].trans ELSE s.marks[m]]]

\* queueAlert with slot 0 for the alerts in A: once for each transition.
QueuedFirst(s, A) ==
    Queued(s, {m \in UNION {Routed(s, s.routes, a) : a \in A} :
                  /\ s.marks[m] # s.alerts[m[1]].trans
                  /\ s.deliveries[<<m[1], m[2], s.alerts[m[1]].trans, 0>>].state = "none"}, 0)

\* The pairs whose reminder may be due: an active alert with a repeating route
\* and no delivery to the channel that is open, being sent or stuck.
Remindable(s) ==
    {m \in UNION {Routed(s, {r \in s.routes : r.repeat}, a) :
                     a \in {b \in AlertIds : s.alerts[b].state = "active"}} :
        /\ s.marks[m] = s.alerts[m[1]].trans
        /\ \A d \in Held(s) : d[1] = m[1] /\ d[2] = m[2] => s.deliveries[d].state \in Finished}

-----------------------------------------------------------------------------
(* Observations. *)

\* What the monitor may report of a problem: nothing, an event or a condition.
Sights(p) ==
    [kind : {"absent"}, severity : {0}]
    \cup IF p \in Events THEN [kind : {"event"}, severity : Severities]
         ELSE [kind : {"active"}, severity : Severities]
              \cup [kind : {"unknown", "clear"}, severity : {0}]

Observations == {o \in [Problems -> UNION {Sights(p) : p \in Problems}] :
                    \A p \in Problems : o[p] \in Sights(p)}

\* current: the alert of problem p seen first last, <<p, 0>> if there is none.
current(s, p) ==
    LET known == {n \in 1..MaxAlerts : s.alerts[<<p, n>>].state # "none"}
    IN  IF known = {} THEN <<p, 0>> ELSE <<p, CHOOSE n \in known : \A k \in known : k <= n>>

\* A new alert is raised for an event never seen and for a problem that is not
\* active; anything else is about the current alert.
Raises(s, p, o) ==
    \/ o.kind = "event" /\ current(s, p)[2] = 0
    \/ /\ o.kind = "active"
       /\ current(s, p)[2] = 0 \/ s.alerts[current(s, p)].state = "resolved"

Subject(s, p, o) == IF Raises(s, p, o) THEN <<p, born[p] + 1>> ELSE current(s, p)

\* The alert a after the sight o.
Seen(a, o) ==
    LET next == [a EXCEPT !.trans = @ + 1, !.changed = clock, !.stale = FALSE]
    IN  CASE o.kind = "unknown" /\ a.state = "active" -> [a EXCEPT !.stale = TRUE]
          [] o.kind = "clear" /\ a.state = "active"   -> [next EXCEPT !.state = "resolved"]
          [] o.kind = "active" /\ (a.state # "active" \/ a.severity # o.severity) ->
                [next EXCEPT !.state = "active", !.severity = o.severity]
          [] o.kind = "active" /\ a.state = "active" /\ a.severity = o.severity ->
                [a EXCEPT !.stale = FALSE]
          [] o.kind = "event" /\ a.state = "none" ->
                [next EXCEPT !.state = "resolved", !.severity = o.severity, !.event = TRUE]
          [] OTHER -> a

\* Observe: one sight of each problem, saved with the deliveries it leads to.
\* LastCheckAt makes every call a new secret.
Observe(o, ok) ==
    LET touched == {Subject(st, p, o[p]) : p \in Problems} \cap AlertIds
        after   == [a \in AlertIds |-> IF a \in touched THEN Seen(st.alerts[a], o[a[1]])
                                                       ELSE st.alerts[a]]
        changed == {a \in AlertIds : after[a].trans # st.alerts[a].trans}
    IN  /\ Serving
        /\ \A p \in Problems : Raises(st, p, o[p]) => born[p] < MaxAlerts
        /\ \A a \in AlertIds : after[a].trans <= MaxTransitions
        /\ persisted(QueuedFirst([st EXCEPT !.alerts = after], changed), FALSE, ok)
        /\ born' = [p \in Problems |-> IF Raises(st, p, o[p]) THEN born[p] + 1 ELSE born[p]]
        /\ clock' = IF changed = {} \/ disk' = disk THEN clock ELSE clock + 1
        /\ UNCHANGED <<up, worker, phase, serial, restarts, retries, history>>

\* MarkStale, for the active problems of a component.
MarkStale(P, ok) ==
    /\ Serving
    /\ persist([st EXCEPT !.alerts = [a \in AlertIds |->
                  IF a[1] \in P /\ st.alerts[a].state = "active"
                  THEN [st.alerts[a] EXCEPT !.stale = TRUE] ELSE st.alerts[a]]], ok)
    /\ UNCHANGED <<up, worker, env, restarts, history>>

-----------------------------------------------------------------------------
(* The worker. *)

\* Defect for mutation: the alert may have changed since it was queued.
EligibleWhileKnown(s, d) ==
    LET a == s.alerts[d[1]]
        c == s.channels[d[2]]
    IN  CASE ~c.exists \/ ~c.enabled \/ c.gen # s.deliveries[d].gen -> "drop"
          [] d[1] = TestAlert -> "send"
          [] a.state = "none" -> "drop"
          [] a.stale -> "stale"
          [] silenced(s, d[1][1]) -> "silenced"
          [] OTHER -> IF \E r \in s.routes : matches(r, d[1][1], a) /\ d[2] \in r.channels
                      THEN "send" ELSE "drop"

\* Defect for mutation: what is out of date is looked at again later.
EligibleLater(s, d) ==
    LET a == s.alerts[d[1]]
        c == s.channels[d[2]]
    IN  CASE ~c.exists \/ ~c.enabled \/ c.gen # s.deliveries[d].gen -> "drop"
          [] d[1] = TestAlert -> "send"
          [] a.stale \/ a.trans # d[3] \/ a.state # s.deliveries[d].shows -> "stale"
          [] silenced(s, d[1][1]) -> "silenced"
          [] OTHER -> IF \E r \in s.routes : matches(r, d[1][1], a) /\ d[2] \in r.channels
                      THEN "send" ELSE "drop"

\* eligible: what becomes of an outstanding delivery whose time has come.
eligible(s, d) ==
    LET a == s.alerts[d[1]]
        c == s.channels[d[2]]
    IN  CASE ~c.exists \/ ~c.enabled \/ c.gen # s.deliveries[d].gen -> "drop"
          [] d[1] = TestAlert -> "send"
          [] a.state = "none" \/ a.trans # d[3] \/ a.state # s.deliveries[d].shows -> "drop"
          [] a.stale -> "stale"
          [] silenced(s, d[1][1]) -> "silenced"
          [] OTHER -> IF \E r \in s.routes : matches(r, d[1][1], a) /\ d[2] \in r.channels
                      THEN "send" ELSE "drop"

\* The state with the deliveries in C dropped or postponed as eligible says.
Judged(s, C) ==
    [s EXCEPT !.deliveries = [d \in Ids |->
        LET x == s.deliveries[d]
        IN  IF d \notin C THEN x
            ELSE CASE eligible(s, d) = "drop" -> [x EXCEPT !.state = "suppressed", !.silenced = FALSE]
                   [] eligible(s, d) = "send" -> x
                   [] OTHER -> [x EXCEPT !.wait = TRUE, !.silenced = eligible(s, d) = "silenced"]]]

Active(s) == {a \in AlertIds : s.alerts[a].state = "active"}

\* Claims without a sender are uncertain; new routes are queued.
Refreshed == QueuedFirst(Moved(st, {d \in Ids : st.deliveries[d].state = "sending"}, "uncertain"),
                         Active(st))

\* Defect for mutation: the error of the write is not looked at.
ClaimedAnyway == TRUE

\* The claim was saved, so the delivery is sent.
Claimed == ~degraded'

\* DeliverOnce up to the call of the sender.  The reminders in `ripe' and the
\* waiting deliveries in `due' are those whose time has come.  The oldest
\* eligible delivery is claimed, and sent only if the claim was saved.
Tick(due, ripe, ok) ==
    LET s1 == IF ripe = {} THEN Refreshed ELSE Queued(Refreshed, ripe, serial + 1)
        C  == {d \in Ids : /\ s1.deliveries[d].state \in Outstanding
                           /\ s1.deliveries[d].wait => d \in due}
        s2 == Judged(s1, C)
        E  == {d \in C : eligible(s1, d) = "send"}
    IN  /\ Serving /\ flight = None
        /\ ripe \subseteq Remindable(Refreshed)
        /\ ripe # {} => serial < MaxSerials /\ Spare
        /\ \/ /\ E = {}
              /\ persist(s2, ok)
              /\ UNCHANGED <<flight, tries, offered>>
           \/ \E d \in E :
                /\ \A e \in E : s2.deliveries[d].created <= s2.deliveries[e].created
                /\ persist([s2 EXCEPT !.deliveries[d] =
                      [s2.deliveries[d] EXCEPT !.state = "sending", !.attempts = @ + 1]], ok)
                /\ flight' = IF Claimed THEN d ELSE None
                /\ tries' = IF Claimed THEN [tries EXCEPT ![d] = @ + 1] ELSE tries
                /\ offered' = IF Claimed /\ d[1] # TestAlert
                              THEN [offered EXCEPT ![<<d[1], d[2]>>] = d[3]] ELSE offered
        /\ serial' = IF ripe = {} THEN serial ELSE serial + 1
        /\ clock' = IF Held(s1) = Held(st) \/ disk' = disk THEN clock ELSE clock + 1
        /\ UNCHANGED <<up, reached, phase, born, restarts, retries, copies>>

\* The receiver accepts the request.  A request it accepts after the sender's
\* deadline counts as one accepted before an unknown outcome.
Reach ==
    /\ flight # None /\ ~reached
    /\ reached' = TRUE
    /\ copies' = [copies EXCEPT ![flight] = @ + 1]
    /\ UNCHANGED <<st, disk, degraded, up, flight, env, failures, restarts, tries, offered>>

\* Defect for mutation: one attempt too many.
ResultOffByOne(x, outcome) ==
    CASE outcome = "accepted" -> [x EXCEPT !.state = "sent", !.silenced = FALSE]
      [] outcome = "unknown" -> [x EXCEPT !.state = "uncertain", !.silenced = FALSE]
      [] outcome = "rejected" /\ x.attempts > MaxAttempts ->
            [x EXCEPT !.state = "failed", !.silenced = FALSE]
      [] OTHER -> [x EXCEPT !.state = "retrying", !.silenced = FALSE, !.wait = TRUE]

\* The delivery after its send: an unknown outcome is never tried again.
Result(x, outcome) ==
    CASE outcome = "accepted" -> [x EXCEPT !.state = "sent", !.silenced = FALSE]
      [] outcome = "unknown" -> [x EXCEPT !.state = "uncertain", !.silenced = FALSE]
      [] outcome = "rejected" /\ x.attempts >= MaxAttempts ->
            [x EXCEPT !.state = "failed", !.silenced = FALSE]
      [] OTHER -> [x EXCEPT !.state = "retrying", !.silenced = FALSE, !.wait = TRUE]

\* The rest of DeliverOnce.  The sender reports success only for an accepted
\* request and a rejection only for one that was refused; a transport error, a
\* missing confirmation, a deadline or a shutdown leaves the outcome unknown.
Complete(outcome, ok) ==
    /\ flight # None
    /\ outcome = "accepted" => reached
    /\ outcome = "rejected" => ~reached
    /\ persist([st EXCEPT !.deliveries[flight] = Result(@, outcome)], ok)
    /\ flight' = None
    /\ reached' = FALSE
    /\ UNCHANGED <<up, env, restarts, history>>

-----------------------------------------------------------------------------
(* Settings and operators. *)

\* SaveChannel: a new channel, or a change of the generation that was read.
SaveChannel(c, enabled, ok) ==
    /\ Serving
    /\ st.channels[c].exists \/ st.channels[c].gen = 0
    /\ st.channels[c].gen < MaxEdits
    /\ persist([st EXCEPT !.channels[c] = [gen     |-> st.channels[c].gen + 1,
                                           exists  |-> TRUE,
                                           enabled |-> enabled]], ok)
    /\ UNCHANGED <<up, worker, env, restarts, history>>

\* The outstanding deliveries of a channel that is deleted are withdrawn.
Withdrawn(s, c) ==
    Moved(s, {d \in Ids : d[2] = c /\ s.deliveries[d].state \in Outstanding}, "suppressed")

\* DeleteChannel.
DeleteChannel(c, ok) ==
    /\ Serving
    /\ st.channels[c].exists
    /\ \A r \in st.routes : c \notin r.channels
    /\ persist(Withdrawn([st EXCEPT !.channels[c] = [st.channels[c] EXCEPT !.exists = FALSE,
                                                                           !.enabled = FALSE]], c), ok)
    /\ UNCHANGED <<up, worker, env, restarts, history>>

\* SaveRoutes over the revision that was read.
SaveRoutes(R, ok) ==
    /\ Serving
    /\ \A r \in R : r.channels # {} /\ \A c \in r.channels : st.channels[c].exists
    /\ persisted([st EXCEPT !.routes = R], FALSE, ok)
    /\ UNCHANGED <<up, worker, env, restarts, history>>

\* AddSilence; silences that ended a day ago (any subset of the ended ones)
\* are removed.
AddSilence(q, ok) ==
    /\ Serving
    /\ q \notin st.silences /\ phase[q] # "after"
    /\ \E old \in SUBSET {r \in st.silences : phase[r] = "after"} :
          persist([st EXCEPT !.silences = (@ \ old) \cup {q}], ok)
    /\ UNCHANGED <<up, worker, env, restarts, history>>

\* DeleteSilence releases what waited for the end of a silence.
DeleteSilence(q, ok) ==
    /\ Serving
    /\ q \in st.silences
    /\ persist([st EXCEPT
          !.silences = @ \ {q},
          !.deliveries = [d \in Ids |->
              IF st.deliveries[d].state = "pending" /\ st.deliveries[d].silenced
              THEN [st.deliveries[d] EXCEPT !.wait = FALSE] ELSE st.deliveries[d]]], ok)
    /\ UNCHANGED <<up, worker, env, restarts, history>>

\* RetryDelivery: an operator accepts that the receiver may get a second copy.
RetryDelivery(d, ok) ==
    /\ Serving
    /\ st.deliveries[d].state \in Stuck
    /\ retries < MaxRetries /\ Spare
    /\ retries' = retries + 1
    /\ persist([st EXCEPT !.deliveries[d] =
          [@ EXCEPT !.state = "pending", !.attempts = 0, !.wait = FALSE, !.silenced = FALSE]], ok)
    /\ copies' = [copies EXCEPT ![d] = 0]
    /\ tries' = [tries EXCEPT ![d] = 0]
    /\ UNCHANGED <<up, worker, phase, born, serial, clock, restarts, offered>>

\* TestChannel, at most once a minute for each channel.
TestChannel(c, ok) ==
    /\ Serving
    /\ st.channels[c].exists /\ st.channels[c].enabled
    /\ serial < MaxSerials /\ Spare
    /\ persist([st EXCEPT !.deliveries[<<TestAlert, c, 0, serial + 1>>] =
          [state |-> "pending", attempts |-> 0, gen |-> st.channels[c].gen, shows |-> "test",
           wait |-> FALSE, silenced |-> FALSE, created |-> clock]], ok)
    /\ serial' = serial + 1
    /\ clock' = clock + 1
    /\ UNCHANGED <<up, worker, phase, born, restarts, retries, history>>

\* ImportLegacyTelegram: once, when a cluster is opened; if it fails the
\* cluster is not served.
ImportLegacyTelegram(c, enabled, ok) ==
    /\ up /\ ~st.migrated
    /\ st.channels[c].gen = 0
    /\ persist([st EXCEPT
          !.migrated = TRUE,
          !.channels[c] = [gen |-> 1, exists |-> TRUE, enabled |-> enabled],
          !.routes = @ \cup {[enabled |-> enabled, min |-> 1, resolved |-> TRUE, repeat |-> FALSE,
                              problems |-> Problems, channels |-> {c}]}], ok)
    /\ up' = ~degraded'
    /\ UNCHANGED <<worker, env, restarts, history>>

-----------------------------------------------------------------------------
(* The process and time. *)

\* Defect for mutation: an interrupted send is queued again.
RecoveredToRetry(s) ==
    Moved([s EXCEPT !.alerts = [a \in AlertIds |->
              [s.alerts[a] EXCEPT !.stale = @ \/ s.alerts[a].state = "active"]]],
          {d \in Ids : s.deliveries[d].state = "sending"}, "retrying")

\* What Open makes of the stored secret.
Recovered(s) ==
    Moved([s EXCEPT !.alerts = [a \in AlertIds |->
              [s.alerts[a] EXCEPT !.stale = @ \/ s.alerts[a].state = "active"]]],
          {d \in Ids : s.deliveries[d].state = "sending"}, "uncertain")

\* Open: the cluster is only served once its recovered state is saved.
Open(ok) ==
    /\ ~up
    /\ persisted(Recovered(disk), FALSE, ok)
    /\ up' = ~degraded'
    /\ UNCHANGED <<worker, env, restarts, history>>

\* The process ends at any time: only the secret remains, and the receiver may
\* have got what was being sent.
Crash ==
    /\ up /\ restarts < MaxRestarts /\ Spare
    /\ up' = FALSE
    /\ restarts' = restarts + 1
    /\ st' = EmptyState /\ degraded' = FALSE
    /\ flight' = None /\ reached' = FALSE
    /\ UNCHANGED <<disk, env, failures, history>>

\* A silence begins or ends.
Elapse(q) ==
    /\ phase[q] # "after"
    /\ phase' = [phase EXCEPT ![q] = IF @ = "before" THEN "in" ELSE "after"]
    /\ UNCHANGED <<st, disk, degraded, up, worker, clock, born, serial, failures, restarts,
                   retries, history>>

Init ==
    /\ st = EmptyState /\ disk = EmptyState
    /\ degraded = FALSE /\ up = FALSE
    /\ flight = None /\ reached = FALSE
    /\ phase \in [Silences -> {"before", "in"}]
    /\ clock = 1 /\ born = [p \in Problems |-> 0] /\ serial = 0
    /\ failures = 0 /\ restarts = 0 /\ retries = 0
    /\ copies = [d \in Ids |-> 0] /\ tries = [d \in Ids |-> 0]
    /\ offered = [m \in AlertIds \X Channels |-> 0]

\* The waiting deliveries a tick may find due.
Waiting == {d \in Ids : st.deliveries[d].state \in Outstanding /\ st.deliveries[d].wait}

Monitor(ok) ==
    \/ \E o \in Observations : Observe(o, ok)
    \/ \E P \in SUBSET Problems : MarkStale(P, ok)

Deliver(ok) ==
    \/ \E due \in SUBSET Waiting, ripe \in SUBSET Remindable(Refreshed) : Tick(due, ripe, ok)
    \/ \E outcome \in {"accepted", "rejected", "unknown"} : Complete(outcome, ok)

Administer(ok) ==
    \/ \E c \in Channels, e \in BOOLEAN : SaveChannel(c, e, ok)
    \/ \E c \in Channels : DeleteChannel(c, ok) \/ TestChannel(c, ok)
    \/ \E R \in RouteSets : SaveRoutes(R, ok)
    \/ \E q \in Silences : AddSilence(q, ok) \/ DeleteSilence(q, ok)
    \/ \E d \in Ids : RetryDelivery(d, ok)
    \/ \E c \in LegacyTelegram, e \in BOOLEAN : ImportLegacyTelegram(c, e, ok)

\* Writes succeed, or fail while the budget of failures lasts.
Writes == IF failures < MaxFailures /\ Spare THEN BOOLEAN ELSE {TRUE}

Next == \/ \E ok \in Writes : Monitor(ok) \/ Deliver(ok) \/ Administer(ok) \/ Open(ok)
        \/ Reach \/ Crash
        \/ \E q \in Silences : Elapse(q)

Spec == Init /\ [][Next]_vars

\* The ticker of Run fires every second, backoff and silences end, and a send
\* has a deadline of twenty seconds; writes fail only finitely often.
FairSpec == /\ Spec
            /\ WF_vars(Tick(Waiting, {}, TRUE))
            /\ WF_vars(\E outcome \in {"accepted", "rejected", "unknown"} : Complete(outcome, TRUE))
            /\ \A q \in Silences : WF_vars(Elapse(q))

-----------------------------------------------------------------------------
(* Properties. *)

\* Every variable has the shape the code gives it.
TypeOK ==
    /\ \A s \in {st, disk} :
        /\ s.alerts \in [AlertIds -> Alert]
        /\ s.channels \in [Channels -> [gen : 0..MaxEdits, exists : BOOLEAN, enabled : BOOLEAN]]
        /\ s.routes \subseteq Route
        /\ s.silences \subseteq Silences
        /\ s.deliveries \in [Ids -> Delivery]
        /\ s.marks \in [AlertIds \X Channels -> 0..MaxTransitions]
        /\ s.migrated \in BOOLEAN
    /\ degraded \in BOOLEAN /\ up \in BOOLEAN
    /\ flight \in Ids \cup {None} /\ reached \in BOOLEAN
    /\ phase \in [Silences -> {"before", "in", "after"}]
    /\ clock \in Nat /\ born \in [Problems -> 0..MaxAlerts] /\ serial \in 0..MaxSerials
    /\ failures \in 0..MaxFailures /\ restarts \in 0..MaxRestarts /\ retries \in 0..MaxRetries
    /\ copies \in [Ids -> Nat] /\ tries \in [Ids -> Nat]
    /\ offered \in [AlertIds \X Channels -> 0..MaxTransitions]

\* Polls, restarts, failed writes and trimming never make the receiver get the
\* same change of an alert twice; only an operator's retry may.
AtMostOneCopy == \A d \in Ids : copies[d] <= 1

\* "Confirmed refusals are repeated up to five attempts", however often the
\* process restarts or the outbox cannot be saved.
AttemptsAreBounded == \A d \in Ids : tries[d] <= MaxAttempts

\* What is being sent is on disk as a claim: whenever the process dies, the
\* next one knows that the outcome is uncertain.
ClaimIsDurable ==
    flight # None => /\ st.deliveries[flight].state = "sending"
                     /\ disk.deliveries[flight].state = "sending"

\* The changes of one alert are sent to a channel in the order in which they
\* happened, although refused ones are tried again later.
ChangesInOrder ==
    \A m \in AlertIds \X Channels : offered'[m] >= offered[m]

\* A delivery that failed, whose outcome is uncertain or that is being sent is
\* never forgotten, and an outstanding one only if the tick that trims it found
\* it out of date: not by trimming, a failed write, a restart or new settings.
NothingForgotten ==
    LET s == IF up THEN st ELSE disk
    IN  \A d \in Held(s) \cap Held(disk) :
           \/ disk'.deliveries[d].state # "none"
           \/ s.deliveries[d].state \in Finished
           \/ s.deliveries[d].state \in Outstanding /\ eligible(s, d) = "drop"

\* A queued notice is sent, suppressed, or given up for an operator to look at,
\* unless its problem is not observed any more; a silence only postpones it.
EveryNoticeIsDecided ==
    \A d \in Ids :
        up /\ st.deliveries[d].state \in Outstanding ~>
            \/ st.deliveries[d].state \in Finished \cup Stuck \cup {"none"}
            \/ ~up
            \/ d[1] # TestAlert /\ st.alerts[d[1]].stale

\* "The queue checks that the event is still current": once a later alert of a
\* problem was sent to a channel, nothing of an earlier one is sent to it.
LatestAlertLast ==
    [][flight' \notin {flight, None} /\ flight'[1] # TestAlert
          => \A n \in (flight'[1][2] + 1)..MaxAlerts :
                offered[<<<<flight'[1][1], n>>, flight'[2]>>] = 0]_vars
==============================================================================
