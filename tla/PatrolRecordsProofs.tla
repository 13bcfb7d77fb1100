-------------------------- MODULE PatrolRecordsProofs --------------------------
(***************************************************************************)
(* What the monitor records of a patrol, for any waypoints, results, goals, *)
(* arrivals and queue depth, whatever is lost or raises, and however often  *)
(* the adapter restarts.                                                    *)
(***************************************************************************)
EXTENDS PatrolRecords, SequenceTheorems, FiniteSetTheorems, TLAPS

(* The sample the robot would send. *)
Now == [goal |-> Newest, at |-> place,
        stay |-> IF place = Away THEN 0 ELSE arrivals[Newest][place]]

Line == Append(samples, Now)

StaysAt(q, i, j, g, w) == \A k \in i .. j : q[k].goal = g => q[k].at = w

(* Two samples of a place are of two arrivals, or the robot stayed. *)
Ordered(q) ==
  \A i, j \in DOMAIN q :
    i < j /\ q[i].goal = q[j].goal /\ q[i].at = q[j].at /\ q[j].at \in Waypoints =>
      \/ q[i].stay < q[j].stay
      \/ q[i].stay = q[j].stay /\ StaysAt(q, i, j, q[j].goal, q[j].at)

Inside(p, w) == p.reached /\ p.last = w

(* A sample is of an arrival that the tracker has not counted, or it finds    *)
(* the tracker inside.                                                        *)
Uncounted(P, s) == P[s.goal].counts[s.at] < s.stay

FoundInside(q, P, j) ==
  /\ P[q[j].goal].counts[q[j].at] = q[j].stay
  /\ Inside(P[q[j].goal], q[j].at)
  /\ StaysAt(q, 1, j, q[j].goal, q[j].at)

Ahead(q, P) ==
  \A j \in DOMAIN q : q[j].at \in Waypoints => Uncounted(P, q[j]) \/ FoundInside(q, P, j)

(* Why no visit is invented: an entry is counted for an arrival of its own.   *)
VisitInv ==
  /\ Ordered(samples) /\ Ahead(samples, progress)
  /\ Executing => Ordered(Line) /\ Ahead(Line, progress)
  /\ Executing /\ place # Away => arrivals[Newest][place] >= 1
  /\ \A i \in DOMAIN samples :
       samples[i].at \in Waypoints => samples[i].stay <= arrivals[samples[i].goal][samples[i].at]
  /\ \A g \in Goals, w \in Waypoints : progress[g].counts[w] <= arrivals[g][w]
  /\ NoVisitInvented

(* Why the mission shows the result: a goal is finished in the tracker only   *)
(* after a list that was made when it had ended, and no newer list is left.   *)
ResultInv ==
  /\ \A g \in 1 .. Newest - 1 : server[g] # "EXECUTING"
  /\ heard <= Published /\ acceptedAt <= Newest
  /\ \A g \in Goals : progress[g].finished => 2 * g <= heard
  /\ MissionShowsResult

(* Why repeated reports agree: visits of a goal only become more. *)
ReportInv ==
  /\ IsFiniteSet(visits)
  /\ \A r \in runs :
       /\ r.goal <= Newest /\ server[r.goal] # "EXECUTING" /\ r.result = server[r.goal]
       /\ r.visits <= Cardinality(VisitsOf(r.goal))
  /\ RepeatedReportAgrees

RecordInv == TypeOK /\ VisitInv /\ ResultInv /\ ReportInv

--------------------------------------------------------------------------------
(* Queues: what is left when the oldest sample goes, and what comes in.       *)

LEMMA TailFacts ==
  ASSUME NEW S, NEW q \in Seq(S), q # <<>>
  PROVE  /\ Tail(q) \in Seq(S) /\ Head(q) = q[1] /\ 1 \in DOMAIN q
         /\ \A i \in DOMAIN Tail(q) : i \in Nat \ {0} /\ i + 1 \in DOMAIN q /\ Tail(q)[i] = q[i + 1]
<1>1. Len(q) \in Nat \ {0} /\ DOMAIN q = 1 .. Len(q)
  BY EmptySeq, LenProperties
<1>2. /\ Tail(q) \in Seq(S) /\ Head(q) = q[1]
      /\ Len(Tail(q)) = Len(q) - 1
      /\ \A i \in 1 .. Len(q) - 1 : Tail(q)[i] = q[i + 1]
  OBVIOUS
<1>3. DOMAIN Tail(q) = 1 .. Len(q) - 1
  BY <1>1, <1>2, LenProperties
<1>4. QED
  BY <1>1, <1>2, <1>3

LEMMA AppendFacts ==
  ASSUME NEW S, NEW q \in Seq(S), NEW s \in S
  PROVE  /\ Append(q, s) \in Seq(S) /\ Len(q) \in Nat /\ Len(Append(q, s)) = Len(q) + 1
         /\ DOMAIN q = 1 .. Len(q) /\ DOMAIN Append(q, s) = 1 .. Len(q) + 1
         /\ Append(q, s)[Len(q) + 1] = s
         /\ \A i \in 1 .. Len(q) : Append(q, s)[i] = q[i]
  BY AppendProperties, LenProperties

LEMMA TailOfAppend ==
  ASSUME NEW S, NEW q \in Seq(S), NEW s \in S, q # <<>>
  PROVE  Tail(Append(q, s)) = Append(Tail(q), s) /\ Head(Append(q, s)) = Head(q)
  BY TailFacts, AppendFacts

LEMMA OrderedTail ==
  ASSUME NEW q \in Seq(Samples), q # <<>>, Ordered(q)
  PROVE  Ordered(Tail(q))
<1>1. SUFFICES ASSUME NEW i \in DOMAIN Tail(q), NEW j \in DOMAIN Tail(q), i < j,
                      Tail(q)[i].goal = Tail(q)[j].goal, Tail(q)[i].at = Tail(q)[j].at,
                      Tail(q)[j].at \in Waypoints
               PROVE  \/ Tail(q)[i].stay < Tail(q)[j].stay
                      \/ /\ Tail(q)[i].stay = Tail(q)[j].stay
                         /\ StaysAt(Tail(q), i, j, Tail(q)[j].goal, Tail(q)[j].at)
  BY DEF Ordered
<1>2. /\ \A k \in DOMAIN Tail(q) : k \in Nat \ {0} /\ k + 1 \in DOMAIN q /\ Tail(q)[k] = q[k + 1]
      /\ DOMAIN Tail(q) = 1 .. Len(Tail(q)) /\ Len(Tail(q)) \in Nat
  BY TailFacts, LenProperties
<1>3. i + 1 < j + 1 /\ i + 1 \in DOMAIN q /\ j + 1 \in DOMAIN q
  BY <1>1, <1>2
<1>4. \/ q[i + 1].stay < q[j + 1].stay
      \/ q[i + 1].stay = q[j + 1].stay /\ StaysAt(q, i + 1, j + 1, q[j + 1].goal, q[j + 1].at)
  BY <1>1, <1>2, <1>3 DEF Ordered
<1>5. ASSUME StaysAt(q, i + 1, j + 1, q[j + 1].goal, q[j + 1].at)
      PROVE  StaysAt(Tail(q), i, j, q[j + 1].goal, q[j + 1].at)
  <2>1. ASSUME NEW k \in i .. j PROVE k \in DOMAIN Tail(q) /\ k + 1 \in i + 1 .. j + 1
    BY <1>2
  <2>2. QED
    BY <1>2, <1>5, <2>1 DEF StaysAt
<1>6. QED
  BY <1>2, <1>4, <1>5

LEMMA AheadTail ==
  ASSUME NEW q \in Seq(Samples), q # <<>>, NEW P, Ahead(q, P)
  PROVE  Ahead(Tail(q), P)
<1>1. SUFFICES ASSUME NEW j \in DOMAIN Tail(q), Tail(q)[j].at \in Waypoints,
                      ~Uncounted(P, Tail(q)[j])
               PROVE  FoundInside(Tail(q), P, j)
  BY DEF Ahead
<1>2. /\ \A k \in DOMAIN Tail(q) : k \in Nat \ {0} /\ k + 1 \in DOMAIN q /\ Tail(q)[k] = q[k + 1]
      /\ DOMAIN Tail(q) = 1 .. Len(Tail(q)) /\ Len(Tail(q)) \in Nat
  BY TailFacts, LenProperties
<1>3. FoundInside(q, P, j + 1)
  BY <1>1, <1>2 DEF Ahead
<1>4. StaysAt(Tail(q), 1, j, Tail(q)[j].goal, Tail(q)[j].at)
  <2>1. ASSUME NEW k \in 1 .. j PROVE k \in DOMAIN Tail(q) /\ k + 1 \in 1 .. j + 1
    BY <1>2
  <2>2. QED
    BY <1>2, <1>3, <2>1 DEF FoundInside, StaysAt
<1>5. QED
  BY <1>2, <1>3, <1>4 DEF FoundInside

(* A sample of an arrival that is newer than all in the queue, or from no     *)
(* waypoint.                                                                  *)
LEMMA FreshSample ==
  ASSUME NEW q \in Seq(Samples), NEW s \in Samples, NEW P, Ordered(q), Ahead(q, P),
         s.at \in Waypoints => Uncounted(P, s),
         \A i \in DOMAIN q : s.at \in Waypoints /\ q[i].goal = s.goal /\ q[i].at = s.at
                             => q[i].stay < s.stay
  PROVE  Ordered(Append(q, s)) /\ Ahead(Append(q, s), P)
<1> DEFINE l == Append(q, s)
           n == Len(q)
<1>1. /\ n \in Nat /\ DOMAIN q = 1 .. n /\ DOMAIN l = 1 .. n + 1
      /\ l[n + 1] = s /\ \A i \in 1 .. n : l[i] = q[i]
  BY AppendFacts
<1> HIDE DEF l, n
<1>2. ASSUME NEW j \in 1 .. n, NEW i \in 1 .. j, NEW g, NEW w, StaysAt(q, i, j, g, w)
      PROVE  StaysAt(l, i, j, g, w)
  <2>1. \A k \in i .. j : k \in 1 .. n
    BY <1>1
  <2>2. QED
    BY <1>1, <1>2, <2>1 DEF StaysAt
<1>3. Ordered(l)
  <2>1. SUFFICES ASSUME NEW i \in DOMAIN l, NEW j \in DOMAIN l, i < j,
                        l[i].goal = l[j].goal, l[i].at = l[j].at, l[j].at \in Waypoints
                 PROVE  \/ l[i].stay < l[j].stay
                        \/ l[i].stay = l[j].stay /\ StaysAt(l, i, j, l[j].goal, l[j].at)
    BY DEF Ordered
  <2>2. CASE j = n + 1
    <3>1. i \in 1 .. n
      BY <1>1, <2>1, <2>2
    <3>2. QED
      BY <1>1, <2>1, <2>2, <3>1
  <2>3. CASE j # n + 1
    <3>1. j \in 1 .. n /\ i \in 1 .. n /\ i \in 1 .. j
      BY <1>1, <2>1, <2>3
    <3>2. \/ q[i].stay < q[j].stay
          \/ q[i].stay = q[j].stay /\ StaysAt(q, i, j, q[j].goal, q[j].at)
      BY <1>1, <2>1, <3>1 DEF Ordered
    <3>3. QED
      BY <1>1, <1>2, <3>1, <3>2
  <2>4. QED
    BY <2>2, <2>3
<1>4. Ahead(l, P)
  <2>1. SUFFICES ASSUME NEW j \in DOMAIN l, l[j].at \in Waypoints
                 PROVE  Uncounted(P, l[j]) \/ FoundInside(l, P, j)
    BY DEF Ahead
  <2>2. CASE j = n + 1
    BY <1>1, <2>1, <2>2
  <2>3. CASE j # n + 1
    <3>1. j \in 1 .. n /\ 1 \in 1 .. j
      BY <1>1, <2>3
    <3>2. Uncounted(P, q[j]) \/ FoundInside(q, P, j)
      BY <1>1, <2>1, <3>1 DEF Ahead
    <3>3. QED
      BY <1>1, <1>2, <3>1, <3>2 DEF FoundInside
  <2>4. QED
    BY <2>2, <2>3
<1>5. QED
  BY <1>3, <1>4 DEF l

(* The last sample is sent once more. *)
LEMMA RepeatedSample ==
  ASSUME NEW q \in Seq(Samples), NEW s \in Samples, NEW P,
         Ordered(Append(q, s)), Ahead(Append(q, s), P)
  PROVE  LET l == Append(q, s) IN Ordered(Append(l, s)) /\ Ahead(Append(l, s), P)
<1> DEFINE l == Append(q, s)
           n == Len(l)
           m == Append(l, s)
<1>1. /\ n \in Nat \ {0} /\ DOMAIN l = 1 .. n /\ DOMAIN m = 1 .. n + 1
      /\ l[n] = s /\ m[n + 1] = s /\ \A i \in 1 .. n : m[i] = l[i]
  BY AppendFacts
<1>2. Ordered(l) /\ Ahead(l, P)
  OBVIOUS
<1> HIDE DEF m, n, l
<1>3. ASSUME NEW j \in 1 .. n, NEW i \in 1 .. j, NEW g, NEW w, StaysAt(l, i, j, g, w)
      PROVE  StaysAt(m, i, j, g, w)
  <2>1. \A k \in i .. j : k \in 1 .. n
    BY <1>1
  <2>2. QED
    BY <1>1, <1>3, <2>1 DEF StaysAt
<1>4. ASSUME NEW i \in 1 .. n, StaysAt(m, i, n, s.goal, s.at)
      PROVE  StaysAt(m, i, n + 1, s.goal, s.at)
  <2>1. \A k \in i .. n + 1 : k \in i .. n \/ k = n + 1
    BY <1>1
  <2>2. QED
    BY <1>1, <1>4, <2>1 DEF StaysAt
<1>5. Ordered(m)
  <2>1. SUFFICES ASSUME NEW i \in DOMAIN m, NEW j \in DOMAIN m, i < j,
                        m[i].goal = m[j].goal, m[i].at = m[j].at, m[j].at \in Waypoints
                 PROVE  \/ m[i].stay < m[j].stay
                        \/ m[i].stay = m[j].stay /\ StaysAt(m, i, j, m[j].goal, m[j].at)
    BY DEF Ordered
  <2>2. ASSUME NEW e \in 1 .. n, i < e, m[e] = m[j]
        PROVE  \/ m[i].stay < m[e].stay
               \/ m[i].stay = m[e].stay /\ StaysAt(m, i, e, m[e].goal, m[e].at)
    <3>1. i \in 1 .. n /\ i \in 1 .. e
      BY <1>1, <2>2
    <3>2. \/ l[i].stay < l[e].stay
          \/ l[i].stay = l[e].stay /\ StaysAt(l, i, e, l[e].goal, l[e].at)
      BY <1>1, <1>2, <2>1, <2>2, <3>1 DEF Ordered
    <3>3. QED
      BY <1>1, <1>3, <3>1, <3>2
  <2>3. CASE j # n + 1
    BY <1>1, <2>1, <2>2, <2>3
  <2>4. CASE j = n + 1 /\ i # n
    <3>1. i < n /\ i \in 1 .. n /\ n \in 1 .. n /\ m[n] = s /\ m[j] = s
      BY <1>1, <2>1, <2>4
    <3>2. QED
      BY <1>4, <2>2, <2>4, <3>1
  <2>5. CASE j = n + 1 /\ i = n
    <3>1. \A k \in n .. n + 1 : m[k] = s
      BY <1>1
    <3>2. QED
      BY <1>1, <2>5, <3>1 DEF StaysAt
  <2>6. QED
    BY <2>3, <2>4, <2>5
<1>6. Ahead(m, P)
  <2>1. SUFFICES ASSUME NEW j \in DOMAIN m, m[j].at \in Waypoints, ~Uncounted(P, m[j])
                 PROVE  FoundInside(m, P, j)
    BY DEF Ahead
  <2>2. ASSUME NEW e \in 1 .. n, m[e] = m[j] PROVE FoundInside(m, P, e)
    <3>1. FoundInside(l, P, e) /\ 1 \in 1 .. e
      BY <1>1, <1>2, <2>1, <2>2 DEF Ahead
    <3>2. QED
      BY <1>1, <1>3, <3>1 DEF FoundInside
  <2>3. CASE j # n + 1
    BY <1>1, <2>2, <2>3
  <2>4. CASE j = n + 1
    <3>1. FoundInside(m, P, n) /\ m[n] = s /\ m[j] = s /\ 1 \in 1 .. n
      BY <1>1, <2>2, <2>4
    <3>2. QED
      BY <1>4, <2>4, <3>1 DEF FoundInside
  <2>5. QED
    BY <2>3, <2>4
<1>7. QED
  BY <1>5, <1>6 DEF l, m

--------------------------------------------------------------------------------
(* The tracker takes the oldest sample.                                       *)

LEMMA NoteFacts ==
  ASSUME NEW p \in Records, NEW at \in Places
  PROVE  /\ Note(p, at).finished = p.finished
         /\ at \in Waypoints => Inside(Note(p, at), at)
         /\ \A w \in Waypoints : Note(p, at).counts[w] =
              IF Entered(p, at) /\ w = at THEN p.counts[w] + 1 ELSE p.counts[w]
         /\ Entered(p, at) => at \in Waypoints /\ ~Inside(p, at)
<1>1. Away \notin Waypoints
  BY PlaceAssumption
<1>2. CASE Entered(p, at)
  <2>1. at \in Waypoints /\ ~Inside(p, at)
    BY <1>1, <1>2 DEF Entered, Inside, Places
  <2>2. Note(p, at) = [p EXCEPT !.reached = TRUE, !.last = at, !.counts[at] = @ + 1]
    BY <1>2 DEF Note
  <2>3. /\ Note(p, at).reached = TRUE /\ Note(p, at).last = at
        /\ Note(p, at).finished = p.finished
        /\ Note(p, at).counts = [p.counts EXCEPT ![at] = @ + 1]
    BY <2>2 DEF Records
  <2>4. p.counts \in [Waypoints -> 0 .. MaxArrivals]
    BY DEF Records
  <2>5. QED
    BY <1>2, <2>1, <2>3, <2>4 DEF Inside
<1>3. CASE ~Entered(p, at)
  <2>1. Note(p, at) = [p EXCEPT !.reached = at # Away]
    BY <1>3 DEF Note
  <2>2. /\ Note(p, at).reached = (at # Away) /\ Note(p, at).last = p.last
        /\ Note(p, at).counts = p.counts /\ Note(p, at).finished = p.finished
    BY <2>1 DEF Records
  <2>3. at \in Waypoints => p.last = at
    BY <1>1, <1>3 DEF Entered
  <2>4. QED
    BY <1>1, <1>3, <2>2, <2>3 DEF Inside
<1>4. QED
  BY <1>2, <1>3

LEMMA SampleFacts ==
  ASSUME NEW q \in Seq(Samples), q # <<>>
  PROVE  /\ 1 \in DOMAIN q
         /\ \A i \in DOMAIN q : /\ q[i] \in Samples /\ q[i].goal \in Goals
                               /\ q[i].at \in Places /\ q[i].stay \in Nat
<1>1. 1 \in DOMAIN q
  BY TailFacts
<1>2. \A i \in DOMAIN q : q[i] \in Samples
  BY LenProperties
<1>3. \A s \in Samples : s.goal \in Goals /\ s.at \in Places /\ s.stay \in Nat
  BY BoundAssumption DEF Samples
<1>4. QED
  BY <1>1, <1>2, <1>3

(* It counts no more than the arrival that the sample is of. *)
LEMMA CountedSample ==
  ASSUME NEW q \in Seq(Samples), q # <<>>, NEW P \in [Goals -> Records], Ahead(q, P),
         q[1].at \in Waypoints
  PROVE  LET p == P[q[1].goal] IN
         /\ Entered(p, q[1].at) => p.counts[q[1].at] < q[1].stay
         /\ Note(p, q[1].at).counts[q[1].at] <= q[1].stay
<1> DEFINE s == q[1]
           p == P[s.goal]
<1>1. 1 \in DOMAIN q /\ s \in Samples /\ p \in Records
  BY SampleFacts
<1>2. /\ p.counts[s.at] \in Nat /\ s.stay \in Nat /\ s.at \in Places
  BY <1>1, BoundAssumption DEF Records, Samples, Places
<1>3. Uncounted(P, s) \/ FoundInside(q, P, 1)
  BY <1>1 DEF Ahead
<1>4. Entered(p, s.at) => p.counts[s.at] < s.stay
  BY <1>1, <1>2, <1>3, NoteFacts DEF Uncounted, FoundInside
<1>5. p.counts[s.at] <= s.stay
  BY <1>2, <1>3 DEF Uncounted, FoundInside
<1>6. QED
  BY <1>1, <1>2, <1>4, <1>5, NoteFacts

LEMMA AheadNote ==
  ASSUME NEW q \in Seq(Samples), q # <<>>, NEW P \in [Goals -> Records], NEW Q,
         Q = [P EXCEPT ![q[1].goal] = Note(P[q[1].goal], q[1].at)],
         Ordered(q), Ahead(q, P)
  PROVE  Ahead(Tail(q), Q)
<1> DEFINE s == q[1]
           p == P[s.goal]
<1>1. /\ 1 \in DOMAIN q /\ s \in Samples /\ p \in Records /\ s.goal \in Goals /\ s.at \in Places
  BY SampleFacts
<1>2. /\ Q[s.goal] = Note(p, s.at) /\ \A g \in Goals : g # s.goal => Q[g] = P[g]
  BY <1>1
<1>3. SUFFICES ASSUME NEW j \in DOMAIN Tail(q), Tail(q)[j].at \in Waypoints
               PROVE  Uncounted(Q, Tail(q)[j]) \/ FoundInside(Tail(q), Q, j)
  BY DEF Ahead
<1>4. /\ \A k \in DOMAIN Tail(q) : k \in Nat \ {0} /\ k + 1 \in DOMAIN q /\ Tail(q)[k] = q[k + 1]
      /\ DOMAIN Tail(q) = 1 .. Len(Tail(q)) /\ Len(Tail(q)) \in Nat
  BY TailFacts, LenProperties
<1> DEFINE t == q[j + 1]
<1>5. t = Tail(q)[j] /\ t \in Samples /\ j + 1 \in DOMAIN q /\ t.goal \in Goals /\ t.at \in Waypoints
      /\ t.stay \in Nat
  BY <1>3, <1>4, SampleFacts
<1>6. Uncounted(P, t) \/ FoundInside(q, P, j + 1)
  BY <1>5 DEF Ahead
<1>7. ASSUME StaysAt(q, 1, j + 1, t.goal, t.at) PROVE StaysAt(Tail(q), 1, j, t.goal, t.at)
  <2>1. ASSUME NEW k \in 1 .. j PROVE k \in DOMAIN Tail(q) /\ k + 1 \in 1 .. j + 1
    BY <1>4
  <2>2. QED
    BY <1>4, <1>7, <2>1 DEF StaysAt
<1>8. StaysAt(q, 1, j + 1, t.goal, t.at) /\ t.goal = s.goal => t.at = s.at
  <2>1. 1 \in 1 .. j + 1
    BY <1>4
  <2>2. QED
    BY <2>1 DEF StaysAt
<1>9. CASE t.goal # s.goal
  <2>1. Q[t.goal] = P[t.goal]
    BY <1>2, <1>5, <1>9
  <2>2. QED
    BY <1>5, <1>6, <1>7, <2>1 DEF Uncounted, FoundInside
<1>10. CASE t.goal = s.goal /\ t.at # s.at
  <2>1. Uncounted(P, t)
    BY <1>6, <1>8, <1>10 DEF FoundInside
  <2>2. Q[t.goal].counts[t.at] = p.counts[t.at]
    BY <1>1, <1>2, <1>5, <1>10, NoteFacts
  <2>3. QED
    BY <1>5, <1>10, <2>1, <2>2 DEF Uncounted
<1>11. CASE t.goal = s.goal /\ t.at = s.at
  <2>1. /\ Note(p, s.at).counts[s.at] <= s.stay /\ Inside(Note(p, s.at), s.at)
    BY <1>1, <1>5, <1>11, CountedSample, NoteFacts
  <2>2. Note(p, s.at).counts[s.at] \in Nat /\ s.stay \in Nat
    <3>1. s.stay \in Nat /\ s.at \in Waypoints
      BY <1>1, <1>5, <1>11, SampleFacts
    <3>2. p.counts[s.at] \in Nat
      BY <1>1, <3>1, BoundAssumption DEF Records
    <3>3. Note(p, s.at).counts[s.at] \in {p.counts[s.at], p.counts[s.at] + 1}
      BY <1>1, <3>1, NoteFacts
    <3>4. QED
      BY <3>1, <3>2, <3>3
  <2>3. s.stay < t.stay \/ (s.stay = t.stay /\ StaysAt(q, 1, j + 1, t.goal, t.at))
    <3>1. 1 < j + 1
      BY <1>4
    <3>2. QED
      BY <1>1, <1>5, <1>11, <3>1 DEF Ordered
  <2>4. CASE Note(p, s.at).counts[s.at] < t.stay
    BY <1>2, <1>5, <1>11, <2>4 DEF Uncounted
  <2>5. CASE ~(Note(p, s.at).counts[s.at] < t.stay)
    <3>1. /\ StaysAt(q, 1, j + 1, t.goal, t.at) /\ Note(p, s.at).counts[s.at] = t.stay
      BY <1>5, <2>1, <2>2, <2>3, <2>5
    <3>2. QED
      BY <1>2, <1>5, <1>7, <1>11, <2>1, <3>1 DEF FoundInside
  <2>6. QED
    BY <2>4, <2>5
<1>12. QED
  BY <1>9, <1>10, <1>11

--------------------------------------------------------------------------------
(* Goals and lists.                                                           *)

LEMMA GoalFacts ==
  ASSUME TypeOK
  PROVE  /\ Newest \in 0 .. MaxGoals /\ MaxGoals \in Nat /\ DOMAIN server = 1 .. Newest
         /\ \A g \in 1 .. Newest : g \in Goals /\ server[g] \in {"EXECUTING"} \cup Results
         /\ Executing => Newest \in Goals
         /\ Published \in 0 .. 2 * Newest
         /\ ~Executing => Published = 2 * Newest
         /\ Executing => Published = 2 * Newest - 1
<1>1. Len(server) \in Nat /\ DOMAIN server = 1 .. Len(server) /\ Len(server) <= MaxGoals
  BY LenProperties DEF TypeOK
<1>2. \A g \in 1 .. Len(server) : server[g] \in {"EXECUTING"} \cup Results
  BY <1>1, LenProperties DEF TypeOK
<1>3. QED
  BY <1>1, <1>2, BoundAssumption DEF Newest, Goals, Executing, Published

LEMMA ListFacts ==
  ASSUME TypeOK, ResultInv, NEW k \in heard + 1 .. Published
  PROVE  /\ k \in 1 .. 2 * MaxGoals /\ Newest \in Goals /\ (k + 1) \div 2 \in 1 .. Newest
         /\ \A g \in Ended(k) : /\ g \in Goals /\ g <= Newest /\ 2 * g <= k
                                /\ server[g] \in Results /\ server[g] # "EXECUTING"
         /\ LatestOf(k) \in 0 .. MaxGoals
         /\ 2 * Newest <= k => LatestOf(k) = Newest
<1>1. /\ heard \in Nat /\ Published \in Nat /\ Newest \in Nat /\ MaxGoals \in Nat
      /\ Newest <= MaxGoals /\ Published <= 2 * Newest /\ acceptedAt \in Nat
      /\ acceptedAt <= Newest /\ latest \in 0 .. MaxGoals
  BY GoalFacts DEF TypeOK, ResultInv
<1>2. k \in Nat /\ 1 <= k /\ k <= 2 * Newest /\ k <= 2 * MaxGoals /\ 1 <= Newest
  BY <1>1
<1>3. (k + 1) \div 2 \in Nat /\ 2 * ((k + 1) \div 2) <= k + 1 /\ k <= 2 * ((k + 1) \div 2)
  BY <1>2
<1>4. (k + 1) \div 2 \in 1 .. Newest
  BY <1>1, <1>2, <1>3
<1>5. ASSUME NEW g \in Ended(k)
      PROVE  /\ g \in Goals /\ g <= Newest /\ 2 * g <= k
             /\ server[g] \in Results /\ server[g] # "EXECUTING"
  <2>1. k \div 2 \in Nat /\ 2 * (k \div 2) <= k
    BY <1>2
  <2>2. g \in Nat /\ 1 <= g /\ 2 * g <= k /\ g <= Newest
    BY <1>1, <1>2, <2>1 DEF Ended
  <2>3. g \in Goals
    BY <1>1, <2>2 DEF Goals
  <2>4. server[g] # "EXECUTING"
    <3>1. CASE g = Newest
      <4>1. ~Executing
        BY <1>1, <1>2, <2>2, <3>1, GoalFacts
      <4>2. QED
        BY <1>1, <1>2, <3>1, <4>1 DEF Executing
    <3>2. CASE g # Newest
      <4>1. g \in 1 .. Newest - 1
        BY <1>1, <2>2, <3>2
      <4>2. QED
        BY <4>1 DEF ResultInv
    <3>3. QED
      BY <3>1, <3>2
  <2>5. server[g] \in {"EXECUTING"} \cup Results
    <3>1. g \in 1 .. Newest
      BY <1>1, <2>2
    <3>2. QED
      BY <3>1, GoalFacts
  <2>6. QED
    BY <2>2, <2>3, <2>4, <2>5
<1>6. LatestOf(k) \in 0 .. MaxGoals
  BY <1>1, <1>4 DEF LatestOf
<1>7. ASSUME 2 * Newest <= k PROVE LatestOf(k) = Newest
  <2>1. (k + 1) \div 2 = Newest
    BY <1>1, <1>2, <1>3, <1>4, <1>7
  <2>2. QED
    BY <1>1, <2>1 DEF LatestOf, NewestAccepted
<1>8. QED
  BY <1>1, <1>2, <1>4, <1>5, <1>6, <1>7 DEF Goals

LEMMA MissionFacts ==
  /\ \A r \in Results : Finished(r) \in Missions
  /\ \A s \in Samples : StateOf(s) \in Missions
  /\ "IDLE" \in Missions
  BY DEF Finished, Missions, StateOf

LEMMA NoteType ==
  ASSUME NEW p \in Records, NEW at \in Places,
         at \in Waypoints => Note(p, at).counts[at] <= MaxArrivals
  PROVE  Note(p, at) \in Records
<1>1. MaxArrivals \in Nat /\ Away \notin Waypoints
  BY BoundAssumption, PlaceAssumption
<1>2. /\ p.reached \in BOOLEAN /\ p.last \in Places /\ p.finished \in BOOLEAN
      /\ p.counts \in [Waypoints -> 0 .. MaxArrivals]
  BY DEF Records
<1>3. CASE Entered(p, at)
  <2>1. Note(p, at) = [p EXCEPT !.reached = TRUE, !.last = at, !.counts[at] = @ + 1]
    BY <1>3 DEF Note
  <2>2. at \in Waypoints
    BY <1>3 DEF Entered, Places
  <2>3. p.counts[at] + 1 \in 0 .. MaxArrivals
    <3>1. Note(p, at).counts[at] = p.counts[at] + 1
      BY <1>3, <2>2, NoteFacts
    <3>2. QED
      BY <1>1, <1>2, <2>2, <3>1
  <2>4. Note(p, at) = [reached |-> TRUE, last |-> at, counts |-> [p.counts EXCEPT ![at] = @ + 1],
                       finished |-> p.finished]
    BY <2>1 DEF Records
  <2>5. [p.counts EXCEPT ![at] = @ + 1] \in [Waypoints -> 0 .. MaxArrivals]
    BY <1>2, <2>3
  <2>6. QED
    BY <1>2, <2>4, <2>5 DEF Records
<1>4. CASE ~Entered(p, at)
  <2>1. Note(p, at) = [p EXCEPT !.reached = at # Away]
    BY <1>4 DEF Note
  <2>2. QED
    BY <1>2, <2>1 DEF Records
<1>5. QED
  BY <1>3, <1>4

(* The sample that the robot sends is well formed. *)
LEMMA NowType == ASSUME TypeOK, Executing PROVE Now \in Samples
<1>1. Newest \in Goals /\ place \in Places
  BY GoalFacts DEF TypeOK
<1>2. place # Away => arrivals[Newest][place] \in 0 .. MaxArrivals
  BY <1>1 DEF TypeOK, Places
<1>3. 0 \in 0 .. MaxArrivals
  BY BoundAssumption
<1>4. QED
  BY <1>1, <1>2, <1>3 DEF Now, Samples

--------------------------------------------------------------------------------
(* The initial state. *)
LEMMA RecordInvInit == Init => RecordInv
<1>1. SUFFICES ASSUME Init PROVE RecordInv
  OBVIOUS
<1>2. /\ Newest = 0 /\ ~Executing /\ Published = 0 /\ MaxGoals \in Nat /\ MaxArrivals \in Nat
      /\ Depth \in Nat
  BY <1>1, BoundAssumption DEF Init, Newest, Executing, Published
<1>3. NewRecord \in Records
  BY <1>2 DEF NewRecord, Records, Places
<1>4. TypeOK
  <2>1. /\ server \in Seq({"EXECUTING"} \cup Results) /\ Len(server) = 0
        /\ samples \in Seq(Samples) /\ Len(samples) = 0
    BY <1>1 DEF Init
  <2>2. arrivals \in [Goals -> [Waypoints -> 0 .. MaxArrivals]]
    BY <1>1, <1>2 DEF Init
  <2>3. progress \in [Goals -> Records]
    BY <1>1, <1>3 DEF Init
  <2>4. /\ place \in Places /\ heard \in 0 .. 2 * MaxGoals
        /\ mission \in Missions /\ latest \in 0 .. MaxGoals /\ acceptedAt \in 0 .. MaxGoals
    BY <1>1, <1>2 DEF Init, Missions, Places
  <2>5. /\ recent \in BOOLEAN /\ row \in Missions \cup {"none"} /\ later \in BOOLEAN
        /\ visits \subseteq Visits /\ runs \subseteq Runs
        /\ contested \subseteq Goals /\ unstored \subseteq Goals /\ late \in BOOLEAN
    BY <1>1 DEF Init
  <2>6. Len(server) <= MaxGoals /\ Len(samples) <= Depth
    BY <1>2, <2>1
  <2>7. QED
    BY <2>1, <2>2, <2>3, <2>4, <2>5, <2>6 DEF TypeOK
<1>5. VisitInv
  <2>1. Ordered(samples) /\ Ahead(samples, progress)
    BY <1>1 DEF Init, Ordered, Ahead
  <2>2. \A g \in Goals, w \in Waypoints : progress[g].counts[w] = 0 /\ arrivals[g][w] = 0
    BY <1>1 DEF Init, NewRecord
  <2>3. QED
    BY <1>1, <1>2, <2>1, <2>2 DEF Init, VisitInv, NoVisitInvented
<1>6. ResultInv
  BY <1>1, <1>2 DEF Init, ResultInv, MissionShowsResult, NewRecord
<1>7. ReportInv
  BY <1>1, FS_EmptySet DEF Init, ReportInv, RepeatedReportAgrees
<1>8. QED
  BY <1>4, <1>5, <1>6, <1>7 DEF RecordInv

--------------------------------------------------------------------------------
(* The types. *)
LEMMA TypeStep == ASSUME RecordInv, [Next]_vars PROVE TypeOK'
<1>1. TypeOK /\ VisitInv /\ ResultInv
  BY DEF RecordInv
<1>2. /\ MaxGoals \in Nat /\ MaxArrivals \in Nat /\ Depth \in Nat \ {0}
      /\ Newest \in 0 .. MaxGoals /\ DOMAIN server = 1 .. Newest
      /\ Executing => Newest \in Goals
  BY <1>1, BoundAssumption, GoalFacts
<1>3. ASSUME StartGoal PROVE TypeOK'
  <2>1. /\ server' = Append(server, "EXECUTING") /\ Newest < MaxGoals /\ place' = Away
        /\ UNCHANGED <<arrivals, wireVars, trackerVars, tableVars, history>>
    BY <1>3 DEF StartGoal
  <2>2. server' \in Seq({"EXECUTING"} \cup Results) /\ Len(server') = Newest + 1
    BY <1>1, <2>1, AppendProperties DEF TypeOK, Newest
  <2>3. QED
    BY <1>1, <1>2, <2>1, <2>2
       DEF TypeOK, Places, wireVars, trackerVars, tableVars, history
<1>4. ASSUME EndGoal PROVE TypeOK'
  <2>1. PICK r \in Results : server' = [server EXCEPT ![Newest] = r]
    BY <1>4 DEF EndGoal
  <2>2. server' \in Seq({"EXECUTING"} \cup Results) /\ Len(server') = Len(server)
    <3>1. Newest \in 1 .. Len(server)
      BY <1>1, <1>2, <1>4 DEF EndGoal, Executing, Newest
    <3>2. server \in Seq({"EXECUTING"} \cup Results) /\ r \in {"EXECUTING"} \cup Results
      BY <1>1 DEF TypeOK
    <3>3. QED
      BY <2>1, <3>1, <3>2, ExceptSeq
  <2>3. UNCHANGED <<place, arrivals, wireVars, trackerVars, tableVars, history>>
    BY <1>4 DEF EndGoal
  <2>4. QED
    BY <1>1, <2>2, <2>3
       DEF TypeOK, wireVars, trackerVars, tableVars, history
<1>5. ASSUME NEW w \in Waypoints, Arrive(w) PROVE TypeOK'
  <2>1. /\ Newest \in Goals /\ arrivals[Newest][w] < MaxArrivals
        /\ place' = w /\ arrivals' = [arrivals EXCEPT ![Newest][w] = @ + 1]
        /\ UNCHANGED <<server, wireVars, trackerVars, tableVars, history>>
    BY <1>2, <1>5 DEF Arrive
  <2>2. arrivals[Newest][w] + 1 \in 0 .. MaxArrivals
    BY <1>1, <1>2, <2>1 DEF TypeOK
  <2>3. arrivals' \in [Goals -> [Waypoints -> 0 .. MaxArrivals]]
    BY <1>1, <2>1, <2>2 DEF TypeOK
  <2>4. QED
    BY <1>1, <2>1, <2>3
       DEF TypeOK, Places, wireVars, trackerVars, tableVars, history
<1>6. ASSUME Leave PROVE TypeOK'
  BY <1>1, <1>6
     DEF Leave, TypeOK, Places, wireVars, trackerVars, tableVars, history
<1>7. ASSUME SendFeedback PROVE TypeOK'
  <2>1. /\ Now \in Samples /\ samples \in Seq(Samples) /\ Len(samples) \in Nat
        /\ Len(samples) <= Depth
    BY <1>1, <1>7, NowType, LenProperties DEF SendFeedback, TypeOK
  <2>2. /\ samples' = IF Len(samples) < Depth THEN Append(samples, Now)
                      ELSE Append(Tail(samples), Now)
        /\ UNCHANGED <<robotVars, heard, trackerVars, tableVars, history>>
    BY <1>7 DEF SendFeedback, Now
  <2>3. samples' \in Seq(Samples) /\ Len(samples') <= Depth
    <3>1. CASE Len(samples) < Depth
      BY <1>2, <2>1, <2>2, <3>1, AppendProperties
    <3>2. CASE ~(Len(samples) < Depth)
      <4>1. samples # <<>>
        BY <1>2, <2>1, <3>2
      <4>2. Tail(samples) \in Seq(Samples) /\ Len(Tail(samples)) = Len(samples) - 1
        BY <2>1, <4>1
      <4>3. samples' = Append(Tail(samples), Now)
        BY <2>2, <3>2
      <4>4. samples' \in Seq(Samples) /\ Len(samples') = Len(Tail(samples)) + 1
        BY <2>1, <4>2, <4>3, AppendProperties
      <4>5. Len(samples') = Len(samples)
        BY <2>1, <4>2, <4>4
      <4>6. QED
        BY <2>1, <4>4, <4>5
    <3>3. QED
      BY <3>1, <3>2
  <2>4. QED
    BY <1>1, <2>2, <2>3
       DEF TypeOK, robotVars, trackerVars, tableVars, history
<1>8. ASSUME Tick PROVE TypeOK'
  BY <1>1, <1>8
     DEF Tick, TypeOK, robotVars, wireVars, history
<1>9. ASSUME Restart PROVE TypeOK'
  <2>1. NewRecord \in Records
    BY <1>2 DEF NewRecord, Records, Places
  <2>2. (IF Newest = 0 THEN 0 ELSE Published - 1) \in 0 .. 2 * MaxGoals
    BY <1>1, <1>2, GoalFacts
  <2>3. <<>> \in Seq(Samples) /\ Len(<<>>) = 0
    OBVIOUS
  <2>4. /\ samples' \in Seq(Samples) /\ Len(samples') <= Depth /\ heard' \in 0 .. 2 * MaxGoals
        /\ mission' \in Missions /\ latest' \in 0 .. MaxGoals /\ acceptedAt' \in 0 .. MaxGoals
    BY <1>2, <1>9, <2>2, <2>3, MissionFacts DEF Restart
  <2>5. progress' \in [Goals -> Records] /\ recent' \in BOOLEAN
    BY <1>9, <2>1 DEF Restart
  <2>6. QED
    BY <1>1, <1>9, <2>4, <2>5 DEF Restart, TypeOK, robotVars
<1>10. ASSUME NEW m \in Missions, NEW ok \in BOOLEAN, StoreStatus(m, ok)
       PROVE  recent' \in BOOLEAN /\ row' \in Missions \cup {"none"} /\ later' \in BOOLEAN
  BY <1>1, <1>10 DEF StoreStatus, TypeOK
<1>11. ASSUME NEW statusOk \in BOOLEAN, NEW visitOk \in BOOLEAN, OnFeedback(statusOk, visitOk)
       PROVE  TypeOK'
  <2> DEFINE s == samples[1]
             p == progress[s.goal]
  <2>1. /\ samples # <<>> /\ Head(samples) = s /\ samples \in Seq(Samples)
        /\ s \in Samples /\ s.goal \in Goals /\ s.at \in Places /\ 1 \in DOMAIN samples
    BY <1>1, <1>11, TailFacts, SampleFacts DEF OnFeedback, TypeOK
  <2>2. /\ samples' = Tail(samples) /\ mission' = StateOf(s) /\ latest' = s.goal
        /\ progress' = [progress EXCEPT ![s.goal] = Note(p, s.at)]
        /\ StoreStatus(StateOf(s), statusOk)
        /\ late' = (late \/ progress[Newest].finished)
        /\ UNCHANGED <<robotVars, heard, acceptedAt, runs, contested, unstored>>
    BY <1>11, <2>1 DEF OnFeedback
  <2>3. \/ visits' = visits
        \/ /\ Entered(p, s.at)
           /\ visits' = visits \cup {[goal |-> s.goal, waypoint |-> s.at,
                                      occurrence |-> p.counts[s.at]]}
    BY <1>11, <2>1 DEF OnFeedback, StoreVisit
  <2>4. progress \in [Goals -> Records] /\ p \in Records
    BY <1>1, <2>1 DEF TypeOK
  <2>5. samples' \in Seq(Samples) /\ Len(samples') <= Depth
    BY <1>1, <1>2, <2>1, <2>2 DEF TypeOK
  <2>6. ASSUME s.at \in Waypoints
        PROVE  /\ Note(p, s.at).counts[s.at] <= s.stay /\ s.stay \in 0 .. MaxArrivals
               /\ p.counts[s.at] \in 0 .. MaxArrivals
               /\ Note(p, s.at).counts[s.at] \in Nat
    <3>1. Note(p, s.at).counts[s.at] <= s.stay
      BY <1>1, <2>1, <2>4, <2>6, CountedSample DEF VisitInv
    <3>2. s.stay \in 0 .. MaxArrivals
      BY <2>1 DEF Samples
    <3>3. p.counts[s.at] \in 0 .. MaxArrivals
      BY <2>4, <2>6 DEF Records
    <3>4. Note(p, s.at).counts[s.at] \in {p.counts[s.at], p.counts[s.at] + 1}
      BY <2>1, <2>4, <2>6, NoteFacts
    <3>5. QED
      BY <3>1, <3>2, <3>3, <3>4
  <2>7. progress' \in [Goals -> Records]
    <3>1. s.at \in Waypoints => Note(p, s.at).counts[s.at] <= MaxArrivals
      BY <1>2, <2>6
    <3>2. Note(p, s.at) \in Records
      BY <2>1, <2>4, <3>1, NoteType
    <3>3. QED
      BY <2>1, <2>2, <2>4, <3>2
  <2>8. visits' \subseteq Visits
    <3>1. Entered(p, s.at) => s.at \in Waypoints
      BY <2>1, <2>4, NoteFacts
    <3>2. QED
      BY <1>1, <2>1, <2>3, <2>6, <3>1 DEF TypeOK, Visits
  <2>9. /\ recent' \in BOOLEAN /\ row' \in Missions \cup {"none"} /\ later' \in BOOLEAN
        /\ mission' \in Missions
    BY <1>10, <2>1, <2>2, MissionFacts
  <2>10. late' \in BOOLEAN /\ latest' \in 0 .. MaxGoals
    BY <2>1, <2>2 DEF Goals
  <2>11. QED
    BY <1>1, <2>2, <2>5, <2>7, <2>8, <2>9, <2>10 DEF TypeOK, robotVars
<1>12. ASSUME NEW k \in heard + 1 .. Published, NEW bad \in SUBSET NewlyFinished(k),
              NEW statusOk \in BOOLEAN, OnGoalStatus(k, bad, statusOk)
       PROVE  TypeOK'
  <2>1. /\ k \in 1 .. 2 * MaxGoals /\ (k + 1) \div 2 \in 1 .. Newest
        /\ LatestOf(k) \in 0 .. MaxGoals
        /\ \A g \in NewlyFinished(k) : g \in Goals /\ server[g] \in Results
    BY <1>1, ListFacts DEF NewlyFinished
  <2>2. heard' \in 0 .. 2 * MaxGoals /\ latest' \in 0 .. MaxGoals /\ acceptedAt' \in 0 .. MaxGoals
    BY <1>1, <1>2, <1>12, <2>1 DEF OnGoalStatus, TypeOK
  <2>3. progress' \in [Goals -> Records]
    <3>1. \A p \in Records : [p EXCEPT !.finished = TRUE] \in Records
      BY DEF Records
    <3>2. QED
      BY <1>1, <1>12, <3>1 DEF OnGoalStatus, TypeOK
  <2>4. /\ runs' \subseteq Runs /\ contested' \subseteq Goals /\ unstored' \subseteq Goals
    <3>1. \A g \in Goals : Cardinality(VisitsOf(g)) \in Nat
      BY FS_CardinalityType, FS_Subset DEF RecordInv, ReportInv, VisitsOf
    <3>2. \A g \in NewlyFinished(k) : ReportOf(g) \in Runs
      BY <2>1, <3>1 DEF ReportOf, Runs
    <3>3. QED
      BY <1>1, <1>12, <2>1, <3>2 DEF OnGoalStatus, StoreReports, TypeOK
  <2>5. /\ mission' \in Missions /\ recent' \in BOOLEAN
        /\ row' \in Missions \cup {"none"} /\ later' \in BOOLEAN
    <3>1. CASE LatestOf(k) \in NewlyFinished(k)
      BY <1>10, <1>12, <2>1, <3>1, MissionFacts DEF OnGoalStatus
    <3>2. CASE LatestOf(k) \notin NewlyFinished(k)
      BY <1>1, <1>12, <3>2 DEF OnGoalStatus, StatusNotEmitted, TypeOK
    <3>3. QED
      BY <3>1, <3>2
  <2>6. late' \in BOOLEAN /\ UNCHANGED <<robotVars, samples, visits>>
    BY <1>12 DEF OnGoalStatus
  <2>7. QED
    BY <1>1, <2>2, <2>3, <2>4, <2>5, <2>6 DEF TypeOK, robotVars
<1>13. ASSUME NEW changed \in BOOLEAN, NEW statusOk \in BOOLEAN, OnBattery(changed, statusOk)
       PROVE  TypeOK'
  <2>1. recent' \in BOOLEAN /\ row' \in Missions \cup {"none"} /\ later' \in BOOLEAN
    BY <1>1, <1>10, <1>13 DEF OnBattery, StatusNotEmitted, TypeOK
  <2>2. QED
    BY <1>1, <1>13, <2>1 DEF OnBattery, TypeOK, robotVars, wireVars, history
<1>14. CASE UNCHANGED vars
  BY <1>1, <1>14
     DEF TypeOK, vars, robotVars, wireVars, trackerVars, tableVars, history
<1>15. QED
  BY <1>3, <1>4, <1>5, <1>6, <1>7, <1>8, <1>9, <1>11, <1>12, <1>13, <1>14
     DEF Next, RobotStep, StatusArrives

--------------------------------------------------------------------------------
(* Visits. *)

LEMMA AheadSame ==
  ASSUME NEW q \in Seq(Samples), NEW P, NEW Q, Ahead(q, P),
         \A g \in Goals : /\ Q[g].counts = P[g].counts
                          /\ Q[g].reached = P[g].reached /\ Q[g].last = P[g].last
  PROVE  Ahead(q, Q)
<1>1. \A j \in DOMAIN q : q[j].goal \in Goals
  <2>1. \A j \in DOMAIN q : q[j] \in Samples
    BY LenProperties
  <2>2. QED
    BY <2>1 DEF Samples
<1>2. QED
  BY <1>1 DEF Ahead, Uncounted, FoundInside, Inside

LEMMA VisitParts ==
  ASSUME Ordered(samples') /\ Ahead(samples', progress'),
         Executing' => Ordered(Append(samples', Now')) /\ Ahead(Append(samples', Now'), progress'),
         Executing' /\ place' # Away => arrivals'[Newest'][place'] >= 1,
         \A i \in DOMAIN samples' : samples'[i].at \in Waypoints =>
           samples'[i].stay <= arrivals'[samples'[i].goal][samples'[i].at],
         \A g \in Goals, w \in Waypoints : progress'[g].counts[w] <= arrivals'[g][w],
         NoVisitInvented'
  PROVE  VisitInv'
  BY DEF VisitInv, Line

LEMMA VisitStep == ASSUME RecordInv, [Next]_vars, TypeOK' PROVE VisitInv'
<1>1. /\ TypeOK /\ VisitInv
      /\ samples \in Seq(Samples) /\ progress \in [Goals -> Records]
      /\ arrivals \in [Goals -> [Waypoints -> 0 .. MaxArrivals]] /\ place \in Places
      /\ visits \subseteq Visits
  BY DEF RecordInv, TypeOK
<1>2. /\ MaxArrivals \in Nat /\ Away \notin Waypoints /\ Newest \in Nat
      /\ Executing => Newest \in Goals /\ Now \in Samples
      /\ \A g \in Goals, w \in Waypoints : arrivals[g][w] \in Nat /\ progress[g].counts[w] \in Nat
  <2>1. MaxArrivals \in Nat /\ Away \notin Waypoints /\ Newest \in Nat
    BY <1>1, BoundAssumption, PlaceAssumption, GoalFacts
  <2>2. Executing => Newest \in Goals /\ Now \in Samples
    BY <1>1, GoalFacts, NowType
  <2>3. \A g \in Goals, w \in Waypoints : arrivals[g][w] \in Nat
    BY <1>1, <2>1
  <2>4. \A g \in Goals, w \in Waypoints : progress[g].counts[w] \in Nat
    BY <1>1, <2>1 DEF Records
  <2>5. QED
    BY <2>1, <2>2, <2>3, <2>4
<1>3. /\ Ordered(samples) /\ Ahead(samples, progress)
      /\ Executing => Ordered(Append(samples, Now)) /\ Ahead(Append(samples, Now), progress)
      /\ Executing /\ place # Away => arrivals[Newest][place] >= 1
      /\ \A i \in DOMAIN samples :
           samples[i].at \in Waypoints => samples[i].stay <= arrivals[samples[i].goal][samples[i].at]
      /\ \A g \in Goals, w \in Waypoints : progress[g].counts[w] <= arrivals[g][w]
      /\ \A v \in visits : v.occurrence < arrivals[v.goal][v.waypoint]
  BY <1>1 DEF VisitInv, Line, NoVisitInvented
<1>4. /\ \A i \in DOMAIN samples : samples[i].goal \in Goals /\ samples[i].stay \in Nat
      /\ \A v \in visits : v.goal \in Goals /\ v.waypoint \in Waypoints /\ v.occurrence \in Nat
  <2>1. \A i \in DOMAIN samples : samples[i] \in Samples
    BY <1>1, LenProperties
  <2>2. QED
    BY <1>1, <1>2, <2>1 DEF Samples, Visits
(* Steps that leave alone what visits are counted from. *)
<1>5. ASSUME UNCHANGED <<server, place, arrivals, samples, visits>>,
             \A g \in Goals : /\ progress'[g].counts = progress[g].counts
                              /\ progress'[g].reached = progress[g].reached
                              /\ progress'[g].last = progress[g].last
      PROVE  VisitInv'
  <2>1. Executing' = Executing /\ Newest' = Newest /\ Now' = Now
    BY <1>5 DEF Executing, Newest, Now
  <2>2. Ahead(samples, progress')
    BY <1>1, <1>3, <1>5, AheadSame
  <2>3. Executing => Ahead(Append(samples, Now), progress')
    <3>1. Executing => Append(samples, Now) \in Seq(Samples)
      BY <1>1, <1>2, AppendFacts
    <3>2. ASSUME Executing PROVE Ahead(Append(samples, Now), progress')
      <4>1. Append(samples, Now) \in Seq(Samples) /\ Ahead(Append(samples, Now), progress)
        BY <1>3, <3>1, <3>2
      <4>2. QED
        BY <1>5, <4>1, AheadSame
    <3>3. QED
      BY <3>2
  <2>4. NoVisitInvented'
    BY <1>3, <1>5 DEF NoVisitInvented
  <2>5. QED
    BY <1>3, <1>5, <2>1, <2>2, <2>3, <2>4, VisitParts
(* Steps of the robot that end where it does not stand at a waypoint. *)
<1>6. ASSUME UNCHANGED <<arrivals, samples, progress, visits>>, place' = Away,
             Executing' => Newest' \in Goals
      PROVE  VisitInv'
  <2>1. Executing' => Now' \in Samples /\ Now'.at = Away
    BY <1>2, <1>6 DEF Now, Samples, Places
  <2>2. ASSUME Executing'
        PROVE  Ordered(Append(samples, Now')) /\ Ahead(Append(samples, Now'), progress)
    BY <1>1, <1>2, <1>3, <2>1, <2>2, FreshSample
  <2>3. NoVisitInvented'
    BY <1>3, <1>6 DEF NoVisitInvented
  <2>4. QED
    BY <1>3, <1>6, <2>2, <2>3, VisitParts
<1>7. ASSUME StartGoal PROVE VisitInv'
  <2>1. Newest' \in Goals
    <3>1. Newest' = Newest + 1 /\ Newest < MaxGoals
      BY <1>1, <1>7, AppendProperties DEF StartGoal, Newest, TypeOK
    <3>2. QED
      BY <1>2, <3>1, BoundAssumption DEF Goals
  <2>2. QED
    BY <1>6, <1>7, <2>1 DEF StartGoal, wireVars, trackerVars, tableVars
<1>8. ASSUME EndGoal PROVE VisitInv'
  <2>1. ~Executing'
    <3>1. PICK r \in Results : server' = [server EXCEPT ![Newest] = r]
      BY <1>8 DEF EndGoal
    <3>2. Newest \in 1 .. Len(server) /\ server \in Seq({"EXECUTING"} \cup Results)
      BY <1>1, <1>2, <1>8 DEF EndGoal, Executing, Newest, TypeOK
    <3>3. Len(server') = Len(server) /\ server'[Newest] = r
      BY <3>1, <3>2, ExceptSeq
    <3>4. r # "EXECUTING"
      BY ResultAssumption
    <3>5. QED
      BY <3>3, <3>4 DEF Executing, Newest
  <2>2. UNCHANGED <<place, arrivals, samples, progress, visits>>
    BY <1>8 DEF EndGoal, wireVars, trackerVars, tableVars
  <2>3. NoVisitInvented'
    BY <1>3, <2>2 DEF NoVisitInvented
  <2>4. QED
    BY <1>3, <2>1, <2>2, <2>3, VisitParts
<1>9. ASSUME NEW w \in Waypoints, Arrive(w) PROVE VisitInv'
  <2> DEFINE n == arrivals[Newest][w]
  <2>1. /\ Executing /\ Newest \in Goals /\ place' = w
        /\ arrivals' = [arrivals EXCEPT ![Newest][w] = @ + 1]
        /\ UNCHANGED <<server, samples, progress, visits>>
        /\ n \in Nat
    BY <1>2, <1>9 DEF Arrive, wireVars, trackerVars, tableVars
  <2>2. Executing' = Executing /\ Newest' = Newest
    BY <2>1 DEF Executing, Newest
  <2>3. /\ arrivals'[Newest][w] = n + 1
        /\ \A g \in Goals, v \in Waypoints : arrivals[g][v] <= arrivals'[g][v]
    BY <1>1, <1>2, <2>1
  <2>4. Now' = [goal |-> Newest, at |-> w, stay |-> n + 1]
    BY <1>2, <2>1, <2>2, <2>3 DEF Now
  <2>5. Now' \in Samples
    <3>1. n + 1 \in 0 .. MaxArrivals
      BY <1>1, <1>2, <1>9, <2>1 DEF Arrive
    <3>2. QED
      BY <2>1, <2>4, <3>1 DEF Samples, Places
  <2>6. Ordered(Append(samples, Now')) /\ Ahead(Append(samples, Now'), progress)
    <3>1. Uncounted(progress, Now')
      BY <1>2, <1>3, <2>1, <2>4 DEF Uncounted
    <3>2. \A i \in DOMAIN samples :
            samples[i].goal = Newest /\ samples[i].at = w => samples[i].stay < n + 1
      BY <1>3, <1>4, <2>1
    <3>3. QED
      BY <1>1, <1>3, <2>4, <2>5, <3>1, <3>2, FreshSample
  <2>7. \A g \in Goals, v \in Waypoints : arrivals'[g][v] \in Nat
    BY <1>2 DEF TypeOK
  <2>8. NoVisitInvented'
    <3>1. SUFFICES ASSUME NEW v \in visits
                   PROVE  v.occurrence < arrivals'[v.goal][v.waypoint]
      BY <2>1 DEF NoVisitInvented
    <3>2. /\ v.occurrence \in Nat /\ v.occurrence < arrivals[v.goal][v.waypoint]
          /\ arrivals[v.goal][v.waypoint] <= arrivals'[v.goal][v.waypoint]
      BY <1>3, <1>4, <2>3
    <3>3. arrivals[v.goal][v.waypoint] \in Nat /\ arrivals'[v.goal][v.waypoint] \in Nat
      BY <1>2, <1>4, <2>7
    <3>4. QED
      BY <3>2, <3>3
  <2>9. \A i \in DOMAIN samples : samples[i].at \in Waypoints =>
          samples[i].stay <= arrivals'[samples[i].goal][samples[i].at]
    BY <1>2, <1>3, <1>4, <2>3, <2>7
  <2>10. \A g \in Goals, v \in Waypoints : progress[g].counts[v] <= arrivals'[g][v]
    BY <1>2, <1>3, <2>3, <2>7
  <2>11. arrivals'[Newest'][place'] >= 1
    BY <2>1, <2>2, <2>3
  <2>12. QED
    BY <1>3, <2>1, <2>6, <2>8, <2>9, <2>10, <2>11, VisitParts
<1>10. ASSUME Leave PROVE VisitInv'
  <2>1. Executing' => Newest' \in Goals
    BY <1>2, <1>10 DEF Leave, Executing, Newest
  <2>2. QED
    BY <1>6, <1>10, <2>1 DEF Leave, wireVars, trackerVars, tableVars
<1>11. ASSUME SendFeedback PROVE VisitInv'
  <2> DEFINE kept == IF Len(samples) < Depth THEN samples ELSE Tail(samples)
  <2>1. /\ Executing /\ Now \in Samples
        /\ samples' = Append(kept, Now)
        /\ UNCHANGED <<server, place, arrivals, progress, visits>>
    BY <1>2, <1>11 DEF SendFeedback, Now, robotVars, trackerVars, tableVars
  <2>2. Executing' = Executing /\ Newest' = Newest /\ Now' = Now
    BY <2>1 DEF Executing, Newest, Now
  <2>3. /\ kept \in Seq(Samples)
        /\ Ordered(Append(kept, Now)) /\ Ahead(Append(kept, Now), progress)
        /\ \A i \in DOMAIN kept : \E j \in DOMAIN samples : kept[i] = samples[j]
    <3>1. CASE Len(samples) < Depth
      BY <1>1, <1>3, <2>1, <3>1
    <3>2. CASE ~(Len(samples) < Depth)
      <4>1. samples # <<>> /\ kept = Tail(samples)
        BY <1>1, <3>2, LenProperties, BoundAssumption
      <4>2. /\ Append(samples, Now) \in Seq(Samples) /\ Append(samples, Now) # <<>>
            /\ Tail(Append(samples, Now)) = Append(kept, Now)
        BY <1>1, <2>1, <4>1, AppendFacts, TailOfAppend
      <4>3. Ordered(Append(kept, Now)) /\ Ahead(Append(kept, Now), progress)
        BY <1>3, <2>1, <4>2, OrderedTail, AheadTail
      <4>4. kept \in Seq(Samples) /\ \A i \in DOMAIN kept : \E j \in DOMAIN samples : kept[i] = samples[j]
        BY <1>1, <4>1, TailFacts
      <4>5. QED
        BY <4>3, <4>4
    <3>3. QED
      BY <3>1, <3>2
  <2> HIDE DEF kept
  <2>4. Ordered(Append(samples', Now)) /\ Ahead(Append(samples', Now), progress)
    BY <2>1, <2>3, RepeatedSample
  <2>5. \A i \in DOMAIN samples' : samples'[i] = Now \/ \E j \in DOMAIN samples : samples'[i] = samples[j]
    BY <2>1, <2>3, AppendFacts
  <2>6. Now.at \in Waypoints => Now.stay <= arrivals[Now.goal][Now.at]
    BY <1>2, <2>1 DEF Now
  <2>7. \A i \in DOMAIN samples' : samples'[i].at \in Waypoints =>
          samples'[i].stay <= arrivals[samples'[i].goal][samples'[i].at]
    BY <1>3, <2>5, <2>6
  <2>8. NoVisitInvented'
    BY <1>3, <2>1 DEF NoVisitInvented
  <2>9. QED
    BY <1>3, <2>1, <2>2, <2>3, <2>4, <2>7, <2>8, VisitParts
<1>12. ASSUME Tick PROVE VisitInv'
  BY <1>5, <1>12 DEF Tick, robotVars, wireVars
<1>13. ASSUME Restart PROVE VisitInv'
  <2>1. /\ samples' = <<>> /\ progress' = [g \in Goals |-> NewRecord]
        /\ UNCHANGED <<server, place, arrivals, visits>>
    BY <1>13 DEF Restart, robotVars
  <2>2. Executing' = Executing /\ Newest' = Newest /\ Now' = Now
    BY <2>1 DEF Executing, Newest, Now
  <2>3. /\ \A g \in Goals, w \in Waypoints : progress'[g].counts[w] = 0
        /\ samples' \in Seq(Samples) /\ Ordered(samples') /\ Ahead(samples', progress')
    BY <2>1 DEF NewRecord, Ordered, Ahead
  <2>4. ASSUME Executing
        PROVE  Ordered(Append(samples', Now)) /\ Ahead(Append(samples', Now), progress')
    <3>1. DOMAIN samples' = {} /\ Now \in Samples
      BY <1>2, <2>1, <2>4
    <3>2. ASSUME Now.at \in Waypoints PROVE Uncounted(progress', Now)
      <4>1. Now.goal \in Goals /\ Now.at \in Waypoints /\ Now.stay \in Nat /\ Now.stay >= 1
        BY <1>2, <1>3, <2>4, <3>2 DEF Now
      <4>2. QED
        BY <2>3, <4>1 DEF Uncounted
    <3>3. QED
      BY <2>3, <3>1, <3>2, FreshSample
  <2>5. NoVisitInvented'
    BY <1>3, <2>1 DEF NoVisitInvented
  <2>6. QED
    BY <1>2, <1>3, <2>1, <2>2, <2>3, <2>4, <2>5, VisitParts
<1>14. ASSUME NEW statusOk \in BOOLEAN, NEW visitOk \in BOOLEAN, OnFeedback(statusOk, visitOk)
       PROVE  VisitInv'
  <2> DEFINE s == samples[1]
             p == progress[s.goal]
  <2>1. /\ samples # <<>> /\ Head(samples) = s /\ 1 \in DOMAIN samples
        /\ s.goal \in Goals /\ s.at \in Places /\ s.stay \in Nat /\ p \in Records
    BY <1>1, <1>14, TailFacts, SampleFacts DEF OnFeedback
  <2>2. /\ samples' = Tail(samples)
        /\ progress' = [progress EXCEPT ![s.goal] = Note(p, s.at)]
        /\ UNCHANGED <<server, place, arrivals>>
    BY <1>14, <2>1 DEF OnFeedback, robotVars
  <2>3. \/ visits' = visits
        \/ /\ Entered(p, s.at)
           /\ visits' = visits \cup {[goal |-> s.goal, waypoint |-> s.at,
                                      occurrence |-> p.counts[s.at]]}
    BY <1>14, <2>1 DEF OnFeedback, StoreVisit
  <2>4. Executing' = Executing /\ Newest' = Newest /\ Now' = Now
    BY <2>2 DEF Executing, Newest, Now
  <2>5. Ordered(samples') /\ Ahead(samples', progress')
    BY <1>1, <1>3, <2>1, <2>2, OrderedTail, AheadNote
  <2>6. ASSUME Executing
        PROVE  Ordered(Append(samples', Now)) /\ Ahead(Append(samples', Now), progress')
    <3> DEFINE l == Append(samples, Now)
    <3>1. l \in Seq(Samples) /\ l # <<>> /\ l[1] = s /\ Tail(l) = Append(samples', Now)
      <4>1. Now \in Samples /\ samples \in Seq(Samples) /\ samples # <<>>
        BY <1>1, <1>2, <2>1, <2>6
      <4>2. /\ l \in Seq(Samples) /\ Len(l) = Len(samples) + 1 /\ Len(samples) \in Nat
            /\ \A i \in 1 .. Len(samples) : l[i] = samples[i]
            /\ DOMAIN samples = 1 .. Len(samples)
        BY <4>1, AppendFacts
      <4>3. Tail(l) = Append(samples', Now)
        BY <2>2, <4>1, TailOfAppend
      <4>4. l # <<>>
        BY <4>1, <4>2, EmptySeq
      <4>5. QED
        BY <2>1, <4>2, <4>3, <4>4
    <3>2. Ordered(l) /\ Ahead(l, progress)
      BY <1>3, <2>6
    <3> HIDE DEF l
    <3>3. Ordered(Tail(l)) /\ Ahead(Tail(l), progress')
      BY <1>1, <2>2, <3>1, <3>2, OrderedTail, AheadNote
    <3>4. QED
      BY <3>1, <3>3
  <2>7. \A i \in DOMAIN samples' : samples'[i].at \in Waypoints =>
          samples'[i].stay <= arrivals[samples'[i].goal][samples'[i].at]
    <3>1. \A i \in DOMAIN Tail(samples) : \E j \in DOMAIN samples : Tail(samples)[i] = samples[j]
      BY <1>1, <2>1, TailFacts
    <3>2. QED
      BY <1>3, <2>2, <3>1
  <2>8. ASSUME s.at \in Waypoints
        PROVE  /\ Entered(p, s.at) => p.counts[s.at] < arrivals[s.goal][s.at]
               /\ Note(p, s.at).counts[s.at] <= arrivals[s.goal][s.at]
    <3>1. s.stay <= arrivals[s.goal][s.at] /\ arrivals[s.goal][s.at] \in Nat
      BY <1>2, <1>3, <2>1, <2>8
    <3>2. p.counts[s.at] \in Nat
      BY <1>2, <2>1, <2>8
    <3>3. /\ Entered(p, s.at) => p.counts[s.at] < s.stay
          /\ Note(p, s.at).counts[s.at] <= s.stay
      BY <1>1, <1>3, <2>1, <2>8, CountedSample
    <3>4. Note(p, s.at).counts[s.at] \in {p.counts[s.at], p.counts[s.at] + 1}
      BY <2>1, <2>8, NoteFacts
    <3>5. s.stay \in Nat
      BY <2>1
    <3> HIDE DEF s, p
    <3>6. QED
      BY <3>1, <3>2, <3>3, <3>4, <3>5
  <2>9. ASSUME NEW g \in Goals, NEW w \in Waypoints PROVE progress'[g].counts[w] <= arrivals[g][w]
    <3>1. CASE g = s.goal /\ w = s.at
      BY <1>1, <2>1, <2>2, <2>8, <3>1
    <3>2. CASE g = s.goal /\ w # s.at
      <4>1. progress'[g].counts[w] = p.counts[w]
        BY <1>1, <2>1, <2>2, <3>2, NoteFacts
      <4>2. QED
        BY <1>3, <3>2, <4>1
    <3>3. CASE g # s.goal
      BY <1>1, <1>3, <2>2, <3>3
    <3>4. QED
      BY <3>1, <3>2, <3>3
  <2>10. NoVisitInvented'
    <3>1. Entered(p, s.at) => s.at \in Waypoints
      BY <2>1, NoteFacts
    <3>2. QED
      BY <1>3, <2>2, <2>3, <2>8, <3>1 DEF NoVisitInvented
  <2>11. QED
    BY <1>3, <2>2, <2>4, <2>5, <2>6, <2>7, <2>9, <2>10, VisitParts
<1>15. ASSUME NEW k, NEW bad, NEW statusOk, OnGoalStatus(k, bad, statusOk) PROVE VisitInv'
  <2>1. \A g \in Goals : \/ progress'[g] = progress[g]
                         \/ progress'[g] = [progress[g] EXCEPT !.finished = TRUE]
    BY <1>15 DEF OnGoalStatus
  <2>2. \A g \in Goals : /\ progress'[g].counts = progress[g].counts
                         /\ progress'[g].reached = progress[g].reached
                         /\ progress'[g].last = progress[g].last
    BY <1>1, <2>1 DEF Records
  <2>3. QED
    BY <1>5, <1>15, <2>2 DEF OnGoalStatus, robotVars
<1>16. ASSUME NEW changed, NEW statusOk, OnBattery(changed, statusOk) PROVE VisitInv'
  BY <1>5, <1>16 DEF OnBattery, robotVars, wireVars
<1>17. CASE UNCHANGED vars
  BY <1>5, <1>17 DEF vars, robotVars, wireVars, trackerVars, tableVars
<1>18. QED
  BY <1>7, <1>8, <1>9, <1>10, <1>11, <1>12, <1>13, <1>14, <1>15, <1>16, <1>17
     DEF Next, RobotStep, StatusArrives

--------------------------------------------------------------------------------
(* The server: what has ended stays as it ended. *)
LEMMA ServerStep ==
  ASSUME TypeOK, ResultInv, [Next]_vars
  PROVE  /\ Newest' \in Nat /\ Newest <= Newest' /\ Published <= Published'
         /\ \A g \in 1 .. Newest : server[g] # "EXECUTING" => server'[g] = server[g]
         /\ \A g \in 1 .. Newest' - 1 : server'[g] # "EXECUTING"
<1>1. /\ Newest \in Nat /\ server \in Seq({"EXECUTING"} \cup Results) /\ DOMAIN server = 1 .. Newest
      /\ Published \in 0 .. 2 * Newest
      /\ ~Executing => Published = 2 * Newest
      /\ Executing => Published = 2 * Newest - 1
      /\ \A g \in 1 .. Newest - 1 : server[g] # "EXECUTING"
  BY GoalFacts DEF TypeOK, ResultInv
<1>2. ASSUME StartGoal
      PROVE  /\ Newest' \in Nat /\ Newest <= Newest' /\ Published <= Published'
             /\ \A g \in 1 .. Newest : server[g] # "EXECUTING" => server'[g] = server[g]
             /\ \A g \in 1 .. Newest' - 1 : server'[g] # "EXECUTING"
  <2>1. server' = Append(server, "EXECUTING") /\ ~Executing
    BY <1>2 DEF StartGoal
  <2>2. /\ Newest' = Newest + 1 /\ server'[Newest + 1] = "EXECUTING"
        /\ \A g \in 1 .. Newest : server'[g] = server[g]
    BY <1>1, <2>1, AppendProperties DEF Newest
  <2>3. Executing' /\ Published' = 2 * Newest + 1
    BY <1>1, <2>2 DEF Executing, Published
  <2>4. \A g \in 1 .. Newest : server[g] # "EXECUTING"
    <3>1. ASSUME NEW g \in 1 .. Newest PROVE g \in 1 .. Newest - 1 \/ (g = Newest /\ Newest > 0)
      BY <1>1
    <3>2. QED
      BY <1>1, <2>1, <3>1 DEF Executing
  <2>5. QED
    BY <1>1, <2>1, <2>2, <2>3, <2>4
<1>3. ASSUME EndGoal
      PROVE  /\ Newest' \in Nat /\ Newest <= Newest' /\ Published <= Published'
             /\ \A g \in 1 .. Newest : server[g] # "EXECUTING" => server'[g] = server[g]
             /\ \A g \in 1 .. Newest' - 1 : server'[g] # "EXECUTING"
  <2>1. PICK r \in Results : server' = [server EXCEPT ![Newest] = r]
    BY <1>3 DEF EndGoal
  <2>2. Executing /\ Newest \in 1 .. Newest /\ server[Newest] = "EXECUTING"
    BY <1>1, <1>3 DEF EndGoal, Executing
  <2>3. /\ Newest' = Newest /\ server'[Newest] = r
        /\ \A g \in 1 .. Newest : g # Newest => server'[g] = server[g]
    <3>1. Newest \in 1 .. Len(server) /\ r \in {"EXECUTING"} \cup Results
      BY <2>2 DEF Newest
    <3>2. /\ Len(server') = Len(server)
          /\ \A g \in 1 .. Len(server) : server'[g] = IF g = Newest THEN r ELSE server[g]
      BY <1>1, <2>1, <3>1, ExceptSeq
    <3>3. QED
      BY <3>1, <3>2 DEF Newest
  <2>4. r # "EXECUTING"
    BY ResultAssumption
  <2>5. ~Executing' /\ Published' = 2 * Newest
    BY <2>3, <2>4 DEF Executing, Published
  <2>6. QED
    BY <1>1, <2>2, <2>3, <2>4, <2>5
<1>4. CASE UNCHANGED server
  BY <1>1, <1>4 DEF Newest, Executing, Published
<1>5. StartGoal \/ EndGoal \/ UNCHANGED server
  BY DEF Next, RobotStep, Arrive, Leave, SendFeedback, Tick, Restart, OnFeedback, StatusArrives,
         OnGoalStatus, OnBattery, vars, robotVars
<1>6. QED
  BY <1>2, <1>3, <1>4, <1>5

(* The mission. *)
LEMMA ResultStep == ASSUME RecordInv, [Next]_vars, TypeOK' PROVE ResultInv'
<1>1. /\ TypeOK /\ ResultInv /\ progress \in [Goals -> Records] /\ heard \in Nat
      /\ Newest \in 0 .. MaxGoals /\ MaxGoals \in Nat /\ acceptedAt \in Nat
      /\ Published \in 0 .. 2 * Newest /\ samples \in Seq(Samples)
  BY GoalFacts DEF RecordInv, TypeOK
<1>2. /\ \A g \in 1 .. Newest - 1 : server[g] # "EXECUTING"
      /\ heard <= Published /\ acceptedAt <= Newest
      /\ \A g \in Goals : progress[g].finished => 2 * g <= heard
      /\ Newest > 0 /\ progress[Newest].finished /\ ~late => mission = Finished(server[Newest])
  BY <1>1 DEF ResultInv, MissionShowsResult
<1>3. /\ Newest' \in 0 .. MaxGoals /\ Newest <= Newest' /\ Published <= Published'
      /\ Published' \in 0 .. 2 * Newest'
      /\ \A g \in 1 .. Newest : server[g] # "EXECUTING" => server'[g] = server[g]
      /\ \A g \in 1 .. Newest' - 1 : server'[g] # "EXECUTING"
  <2>1. Newest' \in 0 .. MaxGoals /\ Published' \in 0 .. 2 * Newest'
    <3>1. Len(server') \in Nat /\ Len(server') <= MaxGoals
      BY LenProperties DEF TypeOK
    <3>2. QED
      BY <1>1, <3>1 DEF Newest, Published, Executing
  <2>2. QED
    BY <1>1, <2>1, ServerStep
(* A goal that is finished in the tracker is over. *)
<1>4. ASSUME Newest > 0, progress[Newest].finished
      PROVE  Newest \in Goals /\ ~Executing /\ heard = Published /\ server[Newest] # "EXECUTING"
  <2>1. Newest \in Goals
    BY <1>1, <1>4 DEF Goals
  <2>2. 2 * Newest <= heard
    BY <1>2, <1>4, <2>1
  <2>3. Published = 2 * Newest /\ heard = Published
    BY <1>1, <1>2, <2>1, <2>2
  <2>4. ~Executing
    BY <1>1, <2>1, <2>3, GoalFacts
  <2>5. QED
    BY <1>4, <2>1, <2>3, <2>4 DEF Executing
(* Steps that leave the tracker and the lists alone. *)
<1>6. ASSUME UNCHANGED <<heard, acceptedAt, progress, mission, late>>,
             Newest' = Newest
      PROVE  ResultInv'
  <2>1. MissionShowsResult'
    <3>1. SUFFICES ASSUME Newest > 0, progress[Newest].finished, ~late
                   PROVE  mission = Finished(server'[Newest])
      BY <1>6 DEF MissionShowsResult
    <3>2. server'[Newest] = server[Newest]
      BY <1>1, <1>3, <1>4, <3>1
    <3>3. QED
      BY <1>2, <3>1, <3>2
  <2>2. heard' <= Published'
    BY <1>1, <1>2, <1>3, <1>6
  <2>3. QED
    BY <1>2, <1>3, <1>6, <2>1, <2>2 DEF ResultInv
<1>7. ASSUME StartGoal PROVE ResultInv'
  <2>1. /\ Newest' = Newest + 1 /\ Newest + 1 \in Goals
        /\ UNCHANGED <<heard, acceptedAt, progress, mission, late>>
    BY <1>1, <1>7, AppendProperties
       DEF StartGoal, Newest, TypeOK, Goals, wireVars, trackerVars, history
  <2>2. ~progress[Newest + 1].finished
    <3>1. ~(2 * (Newest + 1) <= heard)
      BY <1>1, <1>2
    <3>2. QED
      BY <1>2, <2>1, <3>1
  <2>3. MissionShowsResult'
    BY <2>1, <2>2 DEF MissionShowsResult
  <2>4. heard' <= Published' /\ acceptedAt' <= Newest'
    BY <1>1, <1>2, <1>3, <2>1
  <2>5. QED
    BY <1>2, <1>3, <2>1, <2>3, <2>4 DEF ResultInv
<1>8. ASSUME EndGoal PROVE ResultInv'
  <2>1. Newest' = Newest
    <3>1. PICK r \in Results : server' = [server EXCEPT ![Newest] = r]
      BY <1>8 DEF EndGoal
    <3>2. Newest \in 1 .. Len(server)
      BY <1>1, <1>8 DEF EndGoal, Executing, Newest
    <3>3. QED
      BY <1>1, <3>1, <3>2, ExceptSeq DEF Newest, TypeOK
  <2>2. QED
    BY <1>6, <1>8, <2>1 DEF EndGoal, wireVars, trackerVars, history
<1>9. ASSUME (\E w \in Waypoints : Arrive(w)) \/ Leave \/ SendFeedback \/ Tick PROVE ResultInv'
  <2>1. UNCHANGED <<server, heard, acceptedAt, progress, mission, late>>
    BY <1>9 DEF Arrive, Leave, SendFeedback, Tick, robotVars, wireVars, trackerVars, history
  <2>2. QED
    BY <1>6, <2>1 DEF Newest
<1>10. ASSUME Restart PROVE ResultInv'
  <2>1. /\ heard' = (IF Newest = 0 THEN 0 ELSE Published - 1) /\ acceptedAt' = 0
        /\ progress' = [g \in Goals |-> NewRecord] /\ UNCHANGED server
    BY <1>10 DEF Restart, robotVars
  <2>2. Newest' = Newest /\ Published' = Published
    BY <2>1 DEF Newest, Published, Executing
  <2>3. \A g \in Goals : ~progress'[g].finished
    BY <2>1 DEF NewRecord
  <2>4. MissionShowsResult'
    BY <1>1, <2>2, <2>3 DEF MissionShowsResult, Goals
  <2>5. heard' <= Published' /\ acceptedAt' <= Newest'
    BY <1>1, <2>1, <2>2
  <2>6. QED
    BY <1>3, <2>3, <2>4, <2>5 DEF ResultInv
<1>11. ASSUME NEW statusOk \in BOOLEAN, NEW visitOk \in BOOLEAN, OnFeedback(statusOk, visitOk)
       PROVE  ResultInv'
  <2> DEFINE s == samples[1]
  <2>1. /\ s.goal \in Goals /\ s.at \in Places
        /\ progress' = [progress EXCEPT ![s.goal] = Note(progress[s.goal], s.at)]
        /\ late' = (late \/ progress[Newest].finished)
        /\ UNCHANGED <<server, heard, acceptedAt>>
    BY <1>1, <1>11, TailFacts, SampleFacts DEF OnFeedback, robotVars
  <2>2. Newest' = Newest /\ Published' = Published
    BY <2>1 DEF Newest, Published, Executing
  <2>3. \A g \in Goals : progress'[g].finished = progress[g].finished
    BY <1>1, <2>1, NoteFacts
  <2>4. MissionShowsResult'
    <3>1. Newest > 0 => Newest \in Goals
      BY <1>1 DEF Goals
    <3>2. Newest > 0 /\ progress'[Newest].finished => late'
      BY <2>1, <2>3, <3>1
    <3>3. QED
      BY <2>2, <3>2 DEF MissionShowsResult
  <2>5. QED
    BY <1>2, <1>3, <2>1, <2>2, <2>3, <2>4 DEF ResultInv
<1>12. ASSUME NEW k \in heard + 1 .. Published, NEW bad \in SUBSET NewlyFinished(k),
              NEW statusOk \in BOOLEAN, OnGoalStatus(k, bad, statusOk)
       PROVE  ResultInv'
  <2>1. /\ k \in 1 .. 2 * MaxGoals /\ Newest \in Goals /\ (k + 1) \div 2 \in 1 .. Newest
        /\ \A g \in Ended(k) : g \in Goals /\ 2 * g <= k
        /\ 2 * Newest <= k => LatestOf(k) = Newest
    BY <1>1, ListFacts
  <2>2. /\ heard' = k /\ UNCHANGED server
        /\ acceptedAt' \in {acceptedAt, (k + 1) \div 2}
        /\ progress' = [g \in Goals |-> IF g \in NewlyFinished(k)
                                        THEN [progress[g] EXCEPT !.finished = TRUE]
                                        ELSE progress[g]]
        /\ late' = (late /\ Newest \notin NewlyFinished(k))
    BY <1>12 DEF OnGoalStatus, robotVars
  <2>3. Newest' = Newest /\ Published' = Published
    BY <2>2 DEF Newest, Published, Executing
  <2>4. heard' <= Published' /\ acceptedAt' <= Newest'
    BY <1>1, <1>2, <2>1, <2>2, <2>3
  <2>5. \A g \in Goals : progress'[g].finished <=> progress[g].finished \/ g \in NewlyFinished(k)
    BY <1>1, <2>2 DEF Records
  <2>6. \A g \in Goals : progress'[g].finished => 2 * g <= heard'
    <3>1. ASSUME NEW g \in Goals, 2 * g <= heard PROVE 2 * g <= k
      BY <1>1, <3>1 DEF Goals
    <3>2. QED
      BY <1>2, <2>1, <2>2, <2>5, <3>1 DEF NewlyFinished
  <2>7. ~progress[Newest].finished
    BY <1>1, <1>4, <2>1
  <2>8. MissionShowsResult'
    <3>1. SUFFICES ASSUME Newest \in NewlyFinished(k)
                   PROVE  mission' = Finished(server[Newest])
      BY <2>1, <2>2, <2>3, <2>5, <2>7 DEF MissionShowsResult
    <3>2. LatestOf(k) = Newest
      BY <2>1, <3>1 DEF NewlyFinished
    <3>3. QED
      BY <1>12, <3>1, <3>2 DEF OnGoalStatus
  <2>9. QED
    BY <1>3, <2>4, <2>6, <2>8 DEF ResultInv
<1>13. ASSUME NEW changed, NEW statusOk, OnBattery(changed, statusOk) PROVE ResultInv'
  BY <1>6, <1>13 DEF OnBattery, Newest, robotVars, wireVars, history
<1>14. CASE UNCHANGED vars
  BY <1>6, <1>14 DEF Newest, vars, robotVars, wireVars, trackerVars, history
<1>15. QED
  BY <1>7, <1>8, <1>9, <1>10, <1>11, <1>12, <1>13, <1>14
     DEF Next, RobotStep, StatusArrives

--------------------------------------------------------------------------------
(* Reports. *)
LEMMA ReportStep == ASSUME RecordInv, [Next]_vars, TypeOK' PROVE ReportInv'
<1>1. /\ TypeOK /\ ResultInv /\ IsFiniteSet(visits) /\ runs \subseteq Runs
      /\ Newest \in Nat
  BY GoalFacts DEF RecordInv, ReportInv, TypeOK
<1>2. /\ \A r \in runs : /\ r.goal \in 1 .. Newest /\ r.visits \in Nat
                         /\ server[r.goal] # "EXECUTING" /\ r.result = server[r.goal]
                         /\ r.visits <= Cardinality(VisitsOf(r.goal))
                         /\ r = [goal |-> r.goal, result |-> r.result, visits |-> r.visits]
      /\ \A g \in contested : \E r \in runs : r.goal = g /\ r.visits < Cardinality(VisitsOf(g))
  BY <1>1 DEF RecordInv, ReportInv, RepeatedReportAgrees, Runs, Goals
<1>3. /\ Newest' \in Nat /\ Newest <= Newest'
      /\ \A g \in 1 .. Newest : server[g] # "EXECUTING" => server'[g] = server[g]
  BY <1>1, ServerStep
<1>4. \/ visits' = visits
      \/ \E v : visits' = visits \cup {v}
  BY DEF Next, RobotStep, StartGoal, EndGoal, Arrive, Leave, SendFeedback, Tick, Restart, OnFeedback,
         StoreVisit, StatusArrives, OnGoalStatus, OnBattery, vars, tableVars
<1>5. IsFiniteSet(visits') /\ visits \subseteq visits'
  BY <1>1, <1>4, FS_AddElement
<1>6. ASSUME NEW g
      PROVE  /\ Cardinality(VisitsOf(g)) \in Nat /\ Cardinality(VisitsOf(g)') \in Nat
             /\ Cardinality(VisitsOf(g)) <= Cardinality(VisitsOf(g)')
  <2>1. VisitsOf(g) \subseteq VisitsOf(g)' /\ VisitsOf(g)' \subseteq visits'
    BY <1>5 DEF VisitsOf
  <2>2. IsFiniteSet(VisitsOf(g)')
    BY <1>5, <2>1, FS_Subset
  <2>3. QED
    BY <2>1, <2>2, FS_Subset, FS_CardinalityType
(* Old reports and old conflicts. *)
<1>7. ASSUME NEW r \in runs
      PROVE  /\ r.goal <= Newest' /\ server'[r.goal] # "EXECUTING" /\ r.result = server'[r.goal]
             /\ r.visits <= Cardinality(VisitsOf(r.goal)')
  <2>1. /\ Cardinality(VisitsOf(r.goal)) \in Nat /\ Cardinality(VisitsOf(r.goal)') \in Nat
        /\ Cardinality(VisitsOf(r.goal)) <= Cardinality(VisitsOf(r.goal)')
    BY <1>6
  <2>2. QED
    BY <1>1, <1>2, <1>3, <2>1
<1>8. ASSUME NEW g \in contested
      PROVE  \E r \in runs : r.goal = g /\ r.visits < Cardinality(VisitsOf(g)')
  <2>1. PICK r \in runs : r.goal = g /\ r.visits < Cardinality(VisitsOf(g))
    BY <1>2
  <2>2. QED
    BY <1>2, <1>6, <2>1
<1>9. ASSUME UNCHANGED <<runs, contested>> PROVE ReportInv'
  BY <1>5, <1>7, <1>8, <1>9 DEF ReportInv, RepeatedReportAgrees, VisitsOf
<1>10. ASSUME NEW k \in heard + 1 .. Published, NEW bad \in SUBSET NewlyFinished(k),
              NEW statusOk \in BOOLEAN, OnGoalStatus(k, bad, statusOk)
       PROVE  ReportInv'
  <2> DEFINE gs == NewlyFinished(k)
             inserted == {g \in gs \ bad : ~Reported(g) /\ Registered(row)}
  <2>1. /\ UNCHANGED <<server, visits>>
        /\ runs' = runs \cup {ReportOf(g) : g \in inserted}
        /\ contested' = contested \cup
             {g \in gs \ bad : \E r \in runs : r.goal = g /\ ~SameReport(r, ReportOf(g))}
    BY <1>10 DEF OnGoalStatus, StoreReports, robotVars
  <2>2. /\ Newest' = Newest /\ \A g : VisitsOf(g)' = VisitsOf(g)
    BY <2>1 DEF Newest, VisitsOf
  <2>3. \A g \in gs : g \in Nat /\ g <= Newest /\ server[g] # "EXECUTING"
    BY <1>1, ListFacts DEF NewlyFinished, Goals
  <2>4. ASSUME NEW g \in inserted, NEW r, r = ReportOf(g)
        PROVE  /\ r.goal <= Newest' /\ server'[r.goal] # "EXECUTING" /\ r.result = server'[r.goal]
               /\ r.visits <= Cardinality(VisitsOf(r.goal)')
    <3>1. r.goal = g /\ r.result = server[g] /\ r.visits = Cardinality(VisitsOf(g))
      BY <2>4 DEF ReportOf
    <3>2. Cardinality(VisitsOf(g)) \in Nat
      BY <1>6
    <3>3. QED
      BY <2>1, <2>2, <2>3, <3>1, <3>2
  <2>5. ASSUME NEW g, NEW r \in runs, r.goal = g, ~SameReport(r, ReportOf(g))
        PROVE  r.visits < Cardinality(VisitsOf(g))
    <3>1. r.visits # Cardinality(VisitsOf(g))
      BY <1>2, <2>5 DEF SameReport, ReportOf
    <3>2. r.visits \in Nat /\ r.visits <= Cardinality(VisitsOf(g)) /\ Cardinality(VisitsOf(g)) \in Nat
      BY <1>2, <1>6, <2>5
    <3>3. QED
      BY <3>1, <3>2
  <2> HIDE DEF gs, inserted
  <2>6. \A r \in runs' : /\ r.goal <= Newest' /\ server'[r.goal] # "EXECUTING"
                         /\ r.result = server'[r.goal]
                         /\ r.visits <= Cardinality(VisitsOf(r.goal)')
    BY <1>7, <2>1, <2>4
  <2>7. \A g \in contested' : \E r \in runs' : r.goal = g /\ r.visits < Cardinality(VisitsOf(g)')
    BY <1>8, <2>1, <2>2, <2>5
  <2>8. QED
    BY <1>5, <2>6, <2>7 DEF ReportInv, RepeatedReportAgrees, VisitsOf
<1>11. (~\E k \in heard + 1 .. Published : \E bad \in SUBSET NewlyFinished(k), statusOk \in BOOLEAN :
           OnGoalStatus(k, bad, statusOk))
       => UNCHANGED <<runs, contested>>
  BY DEF Next, RobotStep, StartGoal, EndGoal, Arrive, Leave, SendFeedback, Tick, Restart, OnFeedback,
         StatusArrives, OnBattery, vars, tableVars, history
<1>12. QED
  BY <1>9, <1>10, <1>11

--------------------------------------------------------------------------------
(***************************************************************************)
(* Theorems.                                                                *)
(***************************************************************************)

(* Every reachable state satisfies the inductive invariant: tracker, tables,  *)
(* queue and status list fit together.                                        *)
THEOREM RecordInvariant == Spec => []RecordInv
<1>1. Init => RecordInv
  BY RecordInvInit
<1>2. RecordInv /\ [Next]_vars => RecordInv'
  BY TypeStep, VisitStep, ResultStep, ReportStep DEF RecordInv
<1>3. QED
  BY <1>1, <1>2, PTL DEF Spec

(* The variables keep their types; in particular no count of on_feedback      *)
(* exceeds the number of arrivals.                                            *)
THEOREM RecordTypes == Spec => []TypeOK
<1>1. RecordInv => TypeOK
  BY DEF RecordInv
<1>2. QED
  BY <1>1, RecordInvariant, PTL

(* The n-th visit row of a waypoint means n arrivals there, however often the *)
(* robot comes back, samples are lost and the adapter restarts.               *)
THEOREM VisitsAreReal == Spec => []NoVisitInvented
<1>1. RecordInv => NoVisitInvented
  BY DEF RecordInv, VisitInv
<1>2. QED
  BY <1>1, RecordInvariant, PTL

(* A repeated report that is told to conflict differs only by visits that     *)
(* were stored after it (receive_action_result, store_report).                *)
THEOREM RepeatsAgree == Spec => []RepeatedReportAgrees
<1>1. RecordInv => RepeatedReportAgrees
  BY DEF RecordInv, ReportInv
<1>2. QED
  BY <1>1, RecordInvariant, PTL

(* The mission shows the newest goal's result until feedback follows it.      *)
THEOREM ResultIsShown == Spec => []MissionShowsResult
<1>1. RecordInv => MissionShowsResult
  BY DEF RecordInv, ResultInv
<1>2. QED
  BY <1>1, RecordInvariant, PTL
================================================================================
