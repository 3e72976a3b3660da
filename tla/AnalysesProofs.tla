---------------------------- MODULE AnalysesProofs ----------------------------
(***************************************************************************)
(* The tools that read what was measured, for every history, sky, page,    *)
(* pair of ping logs and pair of series.                                   *)
(* A step of the composition is a step of one tool, so each is proved by   *)
(* itself; what they have in common is that a place is chosen by an order, *)
(* and that every set of places has a first one.                           *)
(***************************************************************************)
EXTENDS Analyses, FiniteSums, FunctionTheorems

-----------------------------------------------------------------------------
(* Orders on places.                                                        *)

\* A set of integers that none is below has a least one.
LEMMA LeastInteger ==
  ASSUME NEW T \in SUBSET Int, T # {}, NEW b \in Int, \A y \in T : b <= y
  PROVE  \E x \in T : \A y \in T : x <= y
<1> DEFINE U == {y - b : y \in T}
<1>1. U \in SUBSET Nat /\ U # {}
  <2>1. \A y \in T : y \in Int /\ b <= y
    OBVIOUS
  <2>2. \A y \in T : y - b \in Nat
    BY <2>1
  <2> QED
    BY <2>2
<1> HIDE DEF U
<1>2. PICK u \in U : \A v \in U : u <= v
  BY <1>1, LeastNatural
<1>3. PICK x \in T : u = x - b
  BY <1>2 DEF U
<1>4. \A y \in T : x <= y
  <2> SUFFICES ASSUME NEW y \in T PROVE x <= y
    OBVIOUS
  <2>1. y - b \in U
    BY DEF U
  <2>2. x - b <= y - b
    BY <1>2, <1>3, <2>1
  <2> QED
    BY <2>2
<1> QED
  BY <1>4

\* A strict order on places has a first place in every set of them.
LEMMA FirstPlace ==
  ASSUME NEW n \in Nat, NEW S \in SUBSET (1..n), S # {}, NEW R,
         \A i \in S : <<i, i>> \notin R,
         \A i, j, k \in S : <<i, j>> \in R /\ <<j, k>> \in R => <<i, k>> \in R
  PROVE  \E i \in S : \A j \in S : <<j, i>> \notin R
<1> DEFINE HasFirst(T) == \E i \in T : \A j \in T : <<j, i>> \notin R
           Bad == {m \in Nat : \E T \in SUBSET S : T # {} /\ T \subseteq 1..m /\ ~ HasFirst(T)}
<1>1. SUFFICES ASSUME ~ HasFirst(S) PROVE FALSE
  OBVIOUS
<1>2. \A m : m \in Bad <=> m \in Nat /\ \E T \in SUBSET S : T # {} /\ T \subseteq 1..m /\ ~ HasFirst(T)
  OBVIOUS
<1> HIDE DEF Bad, HasFirst
<1>3. PICK m \in Bad : \A k \in Bad : m <= k
  BY <1>1, <1>2, LeastNatural
<1>4. m \in Nat
  BY <1>2
<1>5. PICK T \in SUBSET S : T # {} /\ T \subseteq 1..m /\ ~ HasFirst(T)
  BY <1>2
<1>6. m # 0
  <2> SUFFICES ASSUME m = 0 PROVE FALSE
    OBVIOUS
  <2>1. PICK k \in T : k \in 1..0
    BY <1>5
  <2> QED
    BY <2>1
<1>7. \A U \in SUBSET S : U # {} /\ U \subseteq 1..(m - 1) => HasFirst(U)
  <2> SUFFICES ASSUME NEW U \in SUBSET S, U # {}, U \subseteq 1..(m - 1), ~ HasFirst(U)
               PROVE  FALSE
    OBVIOUS
  <2>1. m - 1 \in Nat
    BY <1>4, <1>6
  <2>2. m - 1 \in Bad
    BY <1>2, <2>1
  <2>3. m <= m - 1
    BY <1>3, <2>2
  <2> QED
    BY <1>4, <2>3
<1>8. T \ {m} \in SUBSET S /\ T \ {m} \subseteq 1..(m - 1)
  <2>1. \A k \in T \ {m} : k \in 1..(m - 1)
    BY <1>4, <1>5
  <2> QED
    BY <2>1
<1>9. m \in T
  <2> SUFFICES ASSUME m \notin T PROVE FALSE
    OBVIOUS
  <2>1. T \ {m} = T
    OBVIOUS
  <2> QED
    BY <1>5, <1>7, <1>8, <2>1
<1>10. T \ {m} # {}
  <2> SUFFICES ASSUME T \ {m} = {} PROVE FALSE
    OBVIOUS
  <2>1. \A j \in T : j = m
    OBVIOUS
  <2>2. HasFirst(T)
    BY <1>9, <2>1 DEF HasFirst
  <2> QED
    BY <1>5, <2>2
<1>11. HasFirst(T \ {m})
  BY <1>7, <1>8, <1>10
<1>12. PICK i \in T \ {m} : \A j \in T \ {m} : <<j, i>> \notin R
  BY <1>11 DEF HasFirst
<1>13. <<m, i>> \in R
  <2> SUFFICES ASSUME <<m, i>> \notin R PROVE FALSE
    OBVIOUS
  <2>1. \A j \in T : <<j, i>> \notin R
    BY <1>12
  <2> QED
    BY <1>5, <2>1 DEF HasFirst
<1>14. PICK j \in T : <<j, m>> \in R
  BY <1>5, <1>9 DEF HasFirst
<1>15. j # m /\ m \in S /\ i \in S /\ j \in S
  BY <1>9, <1>14
<1>16. <<j, i>> \in R
  BY <1>13, <1>14, <1>15
<1> QED
  BY <1>12, <1>14, <1>15, <1>16

-----------------------------------------------------------------------------
(* The parts.                                                               *)

LEMMA SelectionOrRests == Init => Selection!Init \/ SelectionRests
  BY DEF Init

LEMMA AnnotationOrRests == Init => Annotation!Init \/ AnnotationRests
  BY DEF Init

LEMMA TimelineOrRests == Init => Timeline!Init \/ TimelineRests
  BY DEF Init

LEMMA NextParts ==
  [Next]_vars =>
    /\ [Selection!Next]_(Selection!vars)
    /\ [Annotation!Next]_(Annotation!vars)
    /\ [Timeline!Next]_(Timeline!vars)
    /\ [Metrics!Next]_(Metrics!vars)
    /\ [Comparison!Next]_(Comparison!vars)
  BY DEF Next, vars, selectionVars, annotationVars, timelineVars, metricsVars, comparisonVars,
     Selection!vars, Annotation!vars, Timeline!vars, Metrics!vars, Comparison!vars

-----------------------------------------------------------------------------
(* The annotation.                                                          *)

Rows == [t : Int, sat : Visible, visible : BOOLEAN]

\* A satellite is seen in a window when it is in view at a sample of it.
Within(t, from, to, closed) == from <= t /\ (t < to \/ (closed /\ t = to))
Seen(from, to, closed) ==
  {sat \in Visible : \E t \in Annotation!Samples :
     Within(t, from, to, closed) /\ Annotation!InView(sat, t)}

SeenBefore(e) == Seen(e.start - WindowBefore, e.start, FALSE)
SeenDuring(e) == Seen(e.start, e.end, TRUE)
SeenAfter(e)  == Seen(e.end, e.end + WindowAfter, TRUE)

AnnotationOf(e) ==
  [before |-> SeenBefore(e), during |-> SeenDuring(e), after |-> SeenAfter(e),
   changed |-> Annotation!Changed(SeenBefore(e), SeenDuring(e), SeenAfter(e))]

\* The table tells of the satellites that were looked at where they were in
\* view; an event is only annotated when that is all of them.
TableInv ==
  /\ sky \in [Visible -> SUBSET Int] /\ failing \in [Visible -> SUBSET Int]
  /\ rows \subseteq Rows
  /\ \A sat \in Visible, t \in Int :
       [t |-> t, sat |-> sat, visible |-> TRUE] \in rows
         <=> sat \notin pending /\ t \in Annotation!Samples /\ Annotation!InView(sat, t)

AnnotationInv ==
  /\ events \in Seq(Stretches) /\ Len(annotations) \in 0..Len(events)
  /\ DOMAIN annotations = 1..Len(annotations)
  /\ annotations # <<>> => pending = {}
  /\ events # <<>> => TableInv
  /\ \A k \in DOMAIN annotations : annotations[k] = AnnotationOf(events[k])

LEMMA SamplesAreInstants ==
  /\ Annotation!Samples \subseteq 0..Duration
  /\ \A n \in Nat : n * Step <= Duration => n * Step \in Annotation!Samples
  /\ Duration \in Annotation!Samples
<1> USE VisibilityAssumption DEF VisibilityAssumption
<1>1. Duration \in Annotation!Samples
  BY DEF Annotation!Samples
<1>2. \A n \in Nat : n * Step <= Duration <=> n <= Duration \div Step
  OBVIOUS
<1>3. \A n \in Nat : n * Step \in Nat
  OBVIOUS
<1>4. Duration \div Step \in Nat
  OBVIOUS
<1>5. \A n \in Nat : n * Step <= Duration => n * Step \in Annotation!Samples
  BY <1>2, <1>4 DEF Annotation!Samples
<1>6. Annotation!Samples \subseteq 0..Duration
  <2> SUFFICES ASSUME NEW t \in Annotation!Samples PROVE t \in 0..Duration
    OBVIOUS
  <2>1. CASE t = Duration
    BY <2>1
  <2>2. CASE t # Duration
    <3>1. PICK n \in 0..(Duration \div Step) : t = n * Step
      BY <2>2 DEF Annotation!Samples
    <3>2. n \in Nat /\ n <= Duration \div Step
      BY <1>4, <3>1
    <3> QED
      BY <1>2, <1>3, <3>1, <3>2
  <2> QED
    BY <2>1, <2>2
<1> QED
  BY <1>1, <1>5, <1>6

\* There is a sample within a step of every instant of the series.
LEMMA SampleNear ==
  ASSUME NEW x \in 0..Duration
  PROVE  \E t \in Annotation!Samples : x <= t /\ t < x + Step
<1> USE VisibilityAssumption DEF VisibilityAssumption
<1>1. CASE x + Step > Duration
  BY <1>1, SamplesAreInstants
<1>2. CASE x + Step <= Duration
  <2> DEFINE n == (x + Step - 1) \div Step
  <2>1. n \in Nat /\ x <= n * Step /\ n * Step <= x + Step - 1
    OBVIOUS
  <2>2. n * Step <= Duration /\ n * Step < x + Step
    BY <1>2, <2>1
  <2> HIDE DEF n
  <2> QED
    BY <2>1, <2>2, SamplesAreInstants
<1> QED
  BY <1>1, <1>2

LEMMA CandidatesAreSeen ==
  ASSUME TableInv, pending = {}, NEW from, NEW to, NEW closed
  PROVE  Annotation!Candidates(from, to, closed) = Seen(from, to, closed)
<1>1. ASSUME NEW sat \in Annotation!Candidates(from, to, closed)
      PROVE  sat \in Seen(from, to, closed)
  <2>1. PICK r \in rows : r.visible /\ Within(r.t, from, to, closed) /\ sat = r.sat
    BY <1>1 DEF Annotation!Candidates, Annotation!Loaded, Within
  <2>2. r \in Rows /\ r.sat \in Visible /\ r.t \in Int
    BY DEF TableInv, Rows
  <2>3. r = [t |-> r.t, sat |-> r.sat, visible |-> TRUE]
    BY <2>1, <2>2 DEF Rows
  <2>4. r.t \in Annotation!Samples /\ Annotation!InView(sat, r.t)
    BY <2>1, <2>2, <2>3 DEF TableInv
  <2> QED
    BY <2>1, <2>2, <2>4 DEF Seen
<1>2. ASSUME NEW sat \in Seen(from, to, closed)
      PROVE  sat \in Annotation!Candidates(from, to, closed)
  <2>1. PICK t \in Annotation!Samples : Within(t, from, to, closed) /\ Annotation!InView(sat, t)
    BY <1>2 DEF Seen
  <2>2. sat \in Visible /\ t \in Int
    BY <1>2, SamplesAreInstants, VisibilityAssumption DEF Seen, VisibilityAssumption
  <2> DEFINE r == [t |-> t, sat |-> sat, visible |-> TRUE]
  <2>3. r \in rows
    BY <2>1, <2>2 DEF TableInv
  <2>4. r.visible /\ r.t = t /\ r.sat = sat
    OBVIOUS
  <2> HIDE DEF r
  <2> QED
    BY <2>1, <2>3, <2>4 DEF Annotation!Candidates, Annotation!Loaded, Within
<1> QED
  BY <1>1, <1>2

LEMMA AnnotationInit == Init => AnnotationInv
<1> USE VisibilityAssumption DEF VisibilityAssumption, AnnotationInv
<1>1. AnnotationRests => AnnotationInv
  BY DEF AnnotationRests
<1>2. ASSUME Annotation!Init PROVE AnnotationInv
  <2>1. TableInv
    BY <1>2 DEF Annotation!Init, TableInv
  <2>2. events \in Seq(Stretches) /\ annotations = <<>>
    BY <1>2 DEF Annotation!Init
  <2> QED
    BY <2>1, <2>2
<1> QED
  BY <1>1, <1>2, AnnotationOrRests

\* A look at a satellite enters its row of every sample.
LEMMA LookKeepsTable ==
  ASSUME TableInv, NEW sat \in Visible, Annotation!LookAt(sat)
  PROVE  TableInv'
<1> USE VisibilityAssumption DEF VisibilityAssumption
<1>1. sat \in pending /\ pending' = pending \ {sat} /\ UNCHANGED <<sky, failing>>
  BY DEF Annotation!LookAt
<1>2. \A t : Annotation!InView(sat, t) \in BOOLEAN
  BY DEF Annotation!InView
<1> DEFINE all == {[t |-> t, sat |-> sat, visible |-> Annotation!InView(sat, t)] : t \in Annotation!Samples}
           added == IF onlyVisible THEN {r \in all : r.visible} ELSE all
<1>3. rows' = rows \cup added
  BY DEF Annotation!LookAt
<1>4. all \subseteq Rows
  <2> SUFFICES ASSUME NEW t \in Annotation!Samples
               PROVE  [t |-> t, sat |-> sat, visible |-> Annotation!InView(sat, t)] \in Rows
    OBVIOUS
  <2>1. t \in Int
    BY SamplesAreInstants
  <2> QED
    BY <1>2, <2>1 DEF Rows
<1>5. \A s \in Visible, t \in Int :
        [t |-> t, sat |-> s, visible |-> TRUE] \in added
          <=> s = sat /\ t \in Annotation!Samples /\ Annotation!InView(sat, t)
  <2> SUFFICES ASSUME NEW s \in Visible, NEW t \in Int
               PROVE  [t |-> t, sat |-> s, visible |-> TRUE] \in added
                        <=> s = sat /\ t \in Annotation!Samples /\ Annotation!InView(sat, t)
    OBVIOUS
  <2> DEFINE r == [t |-> t, sat |-> s, visible |-> TRUE]
  <2>1. r.visible /\ r.t = t /\ r.sat = s
    OBVIOUS
  <2>2. r \in added <=> r \in all
    BY <2>1
  <2>3. ASSUME r \in all
        PROVE  s = sat /\ t \in Annotation!Samples /\ Annotation!InView(sat, t)
    <3>1. PICK u \in Annotation!Samples :
            r = [t |-> u, sat |-> sat, visible |-> Annotation!InView(sat, u)]
      BY <2>3
    <3>2. r.t = u /\ r.sat = sat /\ r.visible = Annotation!InView(sat, u)
      BY <3>1
    <3> QED
      BY <3>2
  <2>4. ASSUME s = sat, t \in Annotation!Samples, Annotation!InView(sat, t)
        PROVE  r \in all
    <3>1. Annotation!InView(sat, t) = TRUE
      BY <1>2, <2>4
    <3> QED
      BY <2>4, <3>1
  <2> QED
    BY <2>2, <2>3, <2>4
<1> HIDE DEF added, all
<1>6. rows' \subseteq Rows
  BY <1>3, <1>4 DEF TableInv, added
<1>7. \A s, t : Annotation!InView(s, t)' <=> Annotation!InView(s, t)
  BY <1>1 DEF Annotation!InView
<1>8. \A s \in Visible, t \in Int :
        [t |-> t, sat |-> s, visible |-> TRUE] \in rows'
          <=> s \notin pending' /\ t \in Annotation!Samples /\ Annotation!InView(s, t)'
  BY <1>1, <1>3, <1>5, <1>7 DEF TableInv
<1> QED
  BY <1>1, <1>6, <1>8 DEF TableInv, Annotation!Samples

LEMMA AnnotationKeeps ==
  ASSUME UNCHANGED <<sky, failing>>
  PROVE  \A e : AnnotationOf(e)' = AnnotationOf(e)
  BY DEF AnnotationOf, SeenBefore, SeenDuring, SeenAfter, Seen, Annotation!InView, Annotation!Samples

LEMMA AnnotationNext == AnnotationInv /\ [Annotation!Next]_(Annotation!vars) => AnnotationInv'
<1> SUFFICES ASSUME AnnotationInv, [Annotation!Next]_(Annotation!vars) PROVE AnnotationInv'
  OBVIOUS
<1>1. ASSUME NEW sat \in Visible, Annotation!LookAt(sat) PROVE AnnotationInv'
  <2>1. sat \in pending /\ UNCHANGED <<sky, failing, events, annotations>>
    BY <1>1 DEF Annotation!LookAt
  <2>2. events # <<>> => TableInv'
    BY <1>1, LookKeepsTable DEF AnnotationInv
  <2> QED
    BY <2>1, <2>2, AnnotationKeeps DEF AnnotationInv
<1>2. ASSUME Annotation!Annotate PROVE AnnotationInv'
  <2>1. /\ pending = {} /\ Len(annotations) < Len(events)
        /\ UNCHANGED <<sky, failing, events, pending, rows>>
    BY <1>2 DEF Annotation!Annotate
  <2> DEFINE k == Len(annotations) + 1
             e == events[k]
  <2>2. events \in Seq(Stretches) /\ Len(events) \in Nat /\ Len(annotations) \in Nat
    BY DEF AnnotationInv
  <2>3. events # <<>> /\ TableInv
    BY <2>1, <2>2 DEF AnnotationInv
  <2>4. annotations' = Append(annotations, AnnotationOf(e))
    BY <1>2, <2>1, <2>3, CandidatesAreSeen
    DEF Annotation!Annotate, AnnotationOf, SeenBefore, SeenDuring, SeenAfter
  <2>5. TableInv'
    BY <2>1, <2>3 DEF TableInv, Annotation!InView, Annotation!Samples
  <2>6. \A f : AnnotationOf(f)' = AnnotationOf(f)
    BY <2>1, AnnotationKeeps
  <2>7. DOMAIN annotations = 1..Len(annotations)
    BY DEF AnnotationInv
  <2>8. Len(annotations') = k /\ DOMAIN annotations' = 1..k
    BY <2>2, <2>4, <2>7
  <2>9. \A m \in DOMAIN annotations' : annotations'[m] = AnnotationOf(events[m])
    BY <2>2, <2>4, <2>7, <2>8 DEF AnnotationInv
  <2> QED
    BY <2>1, <2>2, <2>5, <2>6, <2>8, <2>9 DEF AnnotationInv
<1>3. ASSUME UNCHANGED Annotation!vars PROVE AnnotationInv'
  <2>1. UNCHANGED <<sky, failing, events, pending, rows, annotations>>
    BY <1>3 DEF Annotation!vars
  <2> QED
    BY <2>1, AnnotationKeeps DEF AnnotationInv, TableInv, Annotation!InView, Annotation!Samples
<1> QED
  BY <1>1, <1>2, <1>3 DEF Annotation!Next

\* The windows of an event hold a sample each, where it is one that must.
LEMMA WindowsAreSampled ==
  ASSUME NEW e \in Stretches, Annotation!Sampled(e)
  PROVE  /\ \E t \in Annotation!Samples : Within(t, e.start - WindowBefore, e.start, FALSE)
         /\ \E t \in Annotation!Samples : Within(t, e.start, e.end, TRUE)
         /\ \E t \in Annotation!Samples : Within(t, e.end, e.end + WindowAfter, TRUE)
<1> USE VisibilityAssumption DEF VisibilityAssumption, Annotation!Sampled, Within
<1>1. e.start \in Int /\ e.end \in Int /\ e.start < e.end
  BY DEF Stretches
<1>2. Annotation!Samples \subseteq 0..Duration /\ Duration \in Annotation!Samples
  BY SamplesAreInstants
<1>3. \E t \in Annotation!Samples : Within(t, e.start - WindowBefore, e.start, FALSE)
  <2>1. e.start - WindowBefore \in 0..Duration
    BY <1>1
  <2>2. PICK t \in Annotation!Samples :
          e.start - WindowBefore <= t /\ t < e.start - WindowBefore + Step
    BY <2>1, SampleNear
  <2> QED
    BY <1>1, <1>2, <2>2
<1>4. \E t \in Annotation!Samples : Within(t, e.start, e.end, TRUE)
  <2>1. CASE e.end = Duration
    BY <1>1, <1>2, <2>1
  <2>2. CASE e.end - e.start >= Step
    <3>1. e.start \in 0..Duration
      BY <1>1
    <3>2. PICK t \in Annotation!Samples : e.start <= t /\ t < e.start + Step
      BY <3>1, SampleNear
    <3> QED
      BY <1>1, <1>2, <2>2, <3>2
  <2> QED
    BY <2>1, <2>2
<1>5. \E t \in Annotation!Samples : Within(t, e.end, e.end + WindowAfter, TRUE)
  <2>1. CASE e.end + WindowAfter >= Duration
    BY <1>1, <1>2, <2>1
  <2>2. CASE WindowAfter >= Step
    <3>1. e.end \in 0..Duration
      BY <1>1
    <3>2. PICK t \in Annotation!Samples : e.end <= t /\ t < e.end + Step
      BY <3>1, SampleNear
    <3> QED
      BY <1>1, <1>2, <2>2, <3>2
  <2> QED
    BY <2>1, <2>2
<1> QED
  BY <1>3, <1>4, <1>5

LEMMA CandidatesHold == AnnotationInv => Annotation!CandidatesWereInView
<1> SUFFICES ASSUME AnnotationInv, NEW k \in DOMAIN annotations
             PROVE  LET e == events[k] a == annotations[k] IN
    /\ \A sat \in a.before : \E t \in e.start - WindowBefore .. e.start - 1 : t \in sky[sat] \ failing[sat]
    /\ \A sat \in a.during : \E t \in e.start .. e.end : t \in sky[sat] \ failing[sat]
    /\ \A sat \in a.after : \E t \in e.end .. e.end + WindowAfter : t \in sky[sat] \ failing[sat]
  BY DEF Annotation!CandidatesWereInView
<1> USE VisibilityAssumption DEF VisibilityAssumption
<1> DEFINE e == events[k]
           a == annotations[k]
<1>1. a = AnnotationOf(e)
  BY DEF AnnotationInv
<1>2. a.before = SeenBefore(e) /\ a.during = SeenDuring(e) /\ a.after = SeenAfter(e)
  BY <1>1 DEF AnnotationOf
<1>3. e \in Stretches /\ e.start \in Int /\ e.end \in Int
  BY DEF AnnotationInv, Stretches
<1> HIDE DEF e, a
<1>4. \A t \in Annotation!Samples : t \in Int
  BY SamplesAreInstants
<1>5. \A sat \in a.before : \E t \in e.start - WindowBefore .. e.start - 1 : t \in sky[sat] \ failing[sat]
  BY <1>2, <1>3, <1>4 DEF SeenBefore, Seen, Within, Annotation!InView
<1>6. \A sat \in a.during : \E t \in e.start .. e.end : t \in sky[sat] \ failing[sat]
  BY <1>2, <1>3, <1>4 DEF SeenDuring, Seen, Within, Annotation!InView
<1>7. \A sat \in a.after : \E t \in e.end .. e.end + WindowAfter : t \in sky[sat] \ failing[sat]
  BY <1>2, <1>3, <1>4 DEF SeenAfter, Seen, Within, Annotation!InView
<1> QED
  BY <1>5, <1>6, <1>7 DEF e, a

LEMMA SteadySkyHolds == AnnotationInv => Annotation!NoInventedChange
<1> SUFFICES ASSUME AnnotationInv, NEW k \in DOMAIN annotations, Annotation!Sampled(events[k]),
                    \A sat \in Visible : (0..Duration \subseteq sky[sat] \ failing[sat]) \/ sky[sat] = {}
             PROVE  ~ annotations[k].changed
  BY DEF Annotation!NoInventedChange
<1> DEFINE e == events[k]
<1>1. annotations[k] = AnnotationOf(e) /\ e \in Stretches
  BY DEF AnnotationInv
<1> HIDE DEF e
<1>2. Annotation!Sampled(e)
  BY DEF e
<1> DEFINE up == {sat \in Visible : sky[sat] # {}}
<1>3. ASSUME NEW from, NEW to, NEW closed,
             \E t \in Annotation!Samples : Within(t, from, to, closed)
      PROVE  Seen(from, to, closed) = up
  <2>1. PICK t \in Annotation!Samples : Within(t, from, to, closed)
    BY <1>3
  <2>2. \A sat \in Visible : Annotation!InView(sat, t) <=> sky[sat] # {}
    BY SamplesAreInstants DEF Annotation!InView
  <2>3. \A sat \in up : sat \in Seen(from, to, closed)
    BY <2>1, <2>2 DEF Seen
  <2>4. \A sat \in Seen(from, to, closed) : sat \in up
    BY DEF Seen, Annotation!InView
  <2> QED
    BY <2>3, <2>4
<1>4. SeenBefore(e) = up /\ SeenDuring(e) = up /\ SeenAfter(e) = up
  BY <1>1, <1>2, <1>3, WindowsAreSampled DEF SeenBefore, SeenDuring, SeenAfter
<1>5. AnnotationOf(e).changed = Annotation!Changed(up, up, up)
  BY <1>4 DEF AnnotationOf
<1>6. ~ Annotation!Changed(up, up, up)
  BY DEF Annotation!Changed
<1> QED
  BY <1>1, <1>5, <1>6

LEMMA PassingHolds == AnnotationInv => Annotation!PassingChangeSeen
<1> SUFFICES ASSUME AnnotationInv, NEW k \in DOMAIN annotations, Annotation!Sampled(events[k]),
                    NEW sat \in Visible, failing[sat] = {},
                    \/ sky[sat] \cap 0..Duration = events[k].start..events[k].end
                    \/ 0..Duration \ sky[sat] = events[k].start..events[k].end
             PROVE  annotations[k].changed
  BY DEF Annotation!PassingChangeSeen
<1> DEFINE e == events[k]
<1>1. annotations[k] = AnnotationOf(e) /\ e \in Stretches /\ Annotation!Sampled(e)
  BY DEF AnnotationInv
<1>2. \/ sky[sat] \cap 0..Duration = e.start..e.end
      \/ 0..Duration \ sky[sat] = e.start..e.end
  OBVIOUS
<1> HIDE DEF e
<1>3. e.start \in Int /\ e.end \in Int
  BY <1>1 DEF Stretches
<1>4. \A t : Annotation!InView(sat, t) <=> t \in sky[sat]
  BY DEF Annotation!InView
<1>5. \A t \in Annotation!Samples : t \in 0..Duration /\ t \in Int
  BY SamplesAreInstants, VisibilityAssumption DEF VisibilityAssumption
<1>6. PICK t \in Annotation!Samples : Within(t, e.start - WindowBefore, e.start, FALSE)
  BY <1>1, WindowsAreSampled
<1>7. PICK u \in Annotation!Samples : Within(u, e.start, e.end, TRUE)
  BY <1>1, WindowsAreSampled
<1>8. \A v \in Annotation!Samples : Within(v, e.start - WindowBefore, e.start, FALSE) => v \notin e.start..e.end
  BY <1>3, <1>5 DEF Within
<1>9. \A v \in Annotation!Samples : Within(v, e.start, e.end, TRUE) => v \in e.start..e.end
  BY <1>3, <1>5 DEF Within
<1>10. SeenBefore(e) # SeenDuring(e) => annotations[k].changed
  <2>1. annotations[k].changed = Annotation!Changed(SeenBefore(e), SeenDuring(e), SeenAfter(e))
    BY <1>1 DEF AnnotationOf
  <2>2. SeenBefore(e) # SeenDuring(e) => Annotation!Changed(SeenBefore(e), SeenDuring(e), SeenAfter(e))
    BY DEF Annotation!Changed
  <2> QED
    BY <2>1, <2>2
<1>11. CASE sky[sat] \cap 0..Duration = e.start..e.end
  <2>1. sat \in SeenDuring(e)
    BY <1>4, <1>5, <1>7, <1>9, <1>11 DEF SeenDuring, Seen
  <2>2. sat \notin SeenBefore(e)
    BY <1>4, <1>5, <1>8, <1>11 DEF SeenBefore, Seen
  <2>3. SeenBefore(e) # SeenDuring(e)
    BY <2>1, <2>2
  <2> QED
    BY <1>10, <2>3
<1>12. CASE 0..Duration \ sky[sat] = e.start..e.end
  <2>1. sat \notin SeenDuring(e)
    BY <1>4, <1>5, <1>9, <1>12 DEF SeenDuring, Seen
  <2>2. sat \in SeenBefore(e)
    BY <1>4, <1>5, <1>6, <1>8, <1>12 DEF SeenBefore, Seen
  <2>3. SeenBefore(e) # SeenDuring(e)
    BY <2>1, <2>2
  <2> QED
    BY <1>10, <2>3
<1> QED
  BY <1>2, <1>11, <1>12

\* For every sky and every grid: the candidates of an event were in view in its
\* window, a sky that stays as it is does not change for an event, and a
\* satellite that is there, or away, for the event alone is a change
\* (compute_visibility, annotate_event_document).
THEOREM VisibilityIsSound == Spec => []VisibilitySound
<1>1. Init => AnnotationInv
  BY AnnotationInit
<1>2. AnnotationInv /\ [Next]_vars => AnnotationInv'
  BY NextParts, AnnotationNext
<1>3. AnnotationInv => VisibilitySound
  BY CandidatesHold, SteadySkyHolds, PassingHolds DEF VisibilitySound
<1> QED
  BY <1>1, <1>2, <1>3, PTL DEF Spec

-----------------------------------------------------------------------------
(* The timeline.                                                            *)

LEMMA TimelineKeeps ==
  ASSUME UNCHANGED input
  PROVE  /\ Timeline!Times' = Timeline!Times
         /\ Timeline!First' = Timeline!First
         /\ \A t : Timeline!FrameOf(t)' = Timeline!FrameOf(t)
<1>1. Timeline!Times' = Timeline!Times
  BY DEF Timeline!Times
<1>2. Timeline!First' = Timeline!First
  BY <1>1 DEF Timeline!First
<1>3. Timeline!ProfileStart' = Timeline!ProfileStart
  BY <1>2 DEF Timeline!ProfileStart
<1>4. \A t : Timeline!Communication(t)' = Timeline!Communication(t)
  BY DEF Timeline!Communication, Timeline!Samples, Timeline!Precedes, Timeline!SampleTime,
     Timeline!ProfileStart, Timeline!First, Timeline!Times
<1>5. \A sat, t : Timeline!Visibility(sat, t)' = Timeline!Visibility(sat, t)
  BY DEF Timeline!Visibility, Timeline!Off
<1>6. Timeline!Sats' = Timeline!Sats
  BY DEF Timeline!Sats
<1>7. \A t : Timeline!Active(t)' = Timeline!Active(t)
  BY <1>3 DEF Timeline!Active
<1> QED
  BY <1>1, <1>2, <1>4, <1>5, <1>6, <1>7 DEF Timeline!FrameOf

\* What was read, of a page or of nothing.
Read == [observations : Seq(Int), start : Maybe(Int), profile : Seq(Int),
         visibility : Seq([sat : Visible, t : Int]), events : Seq([start : Int, end : Int])]

\* The frames so far are those of the first observations, in their order.
TimelineInv ==
  /\ input \in Read /\ (input.observations = <<>> => input.events = <<>>)
  /\ Len(frames) \in Nat /\ DOMAIN frames = 1..Len(frames)
  /\ \A k \in DOMAIN frames :
       frames[k].t \in Timeline!Times /\ frames[k] = Timeline!FrameOf(frames[k].t)
  /\ \A k, m \in DOMAIN frames : k < m => frames[k].t < frames[m].t
  /\ \A k \in DOMAIN frames : \A t \in Timeline!Times \ Timeline!Shown : frames[k].t < t

LEMMA FirstIsLeast ==
  ASSUME input \in Read, Timeline!Times # {}
  PROVE  /\ Timeline!Times \subseteq Int /\ Timeline!First \in Timeline!Times
         /\ \A u \in Timeline!Times : Timeline!First <= u
         /\ Timeline!ProfileStart \in Int
<1> DEFINE o == input.observations
           n == Len(o)
           R == {p \in (1..n) \X (1..n) : o[p[1]] < o[p[2]]}
<1>1. o \in Seq(Int) /\ n \in Nat /\ DOMAIN o = 1..n /\ \A k \in 1..n : o[k] \in Int
  BY DEF Read
<1>2. Timeline!Times = {o[k] : k \in 1..n}
  BY <1>1 DEF Timeline!Times
<1> HIDE DEF o, n
<1> DEFINE S == 1..n
<1>3. \A i, j \in S : <<i, j>> \in R <=> o[i] < o[j]
  OBVIOUS
<1> HIDE DEF R
<1>4. PICK k \in S : \A j \in S : <<j, k>> \notin R
  <2>1. S # {} /\ S \in SUBSET (1..n)
    BY <1>2
  <2>2. \A i \in S : <<i, i>> \notin R
    BY <1>1, <1>3
  <2>3. \A i, j, l \in S : <<i, j>> \in R /\ <<j, l>> \in R => <<i, l>> \in R
    BY <1>1, <1>3
  <2> HIDE DEF S
  <2> QED
    BY <1>1, <2>1, <2>2, <2>3, FirstPlace
<1>5. o[k] \in Timeline!Times /\ \A u \in Timeline!Times : o[k] <= u
  <2>1. ASSUME NEW j \in S PROVE o[k] <= o[j]
    <3>1. ~ (o[j] < o[k])
      BY <1>3, <1>4
    <3>2. o[j] \in Int /\ o[k] \in Int
      BY <1>1
    <3> QED
      BY <3>1, <3>2
  <2> QED
    BY <1>2, <2>1
<1>6. Timeline!First \in Timeline!Times /\ \A u \in Timeline!Times : Timeline!First <= u
  BY <1>5 DEF Timeline!First
<1>7. Timeline!Times \subseteq Int
  BY <1>1, <1>2
<1>8. Timeline!ProfileStart \in Int
  BY <1>6, <1>7 DEF Timeline!ProfileStart, Read, Maybe
<1> QED
  BY <1>6, <1>7, <1>8

LEMMA PrecedesIsOrder ==
  ASSUME input \in Read, Timeline!ProfileStart \in Int
  PROVE  /\ \A i \in Timeline!Samples : i \in Int /\ Timeline!SampleTime(i) \in Int
         /\ \A i \in Timeline!Samples : ~ Timeline!Precedes(i, i)
         /\ \A i, j \in Timeline!Samples : i # j => Timeline!Precedes(i, j) \/ Timeline!Precedes(j, i)
         /\ \A i, j, k \in Timeline!Samples :
              Timeline!Precedes(i, j) /\ Timeline!Precedes(j, k) => Timeline!Precedes(i, k)
         /\ \A i, j \in Timeline!Samples :
              Timeline!Precedes(i, j) => Timeline!SampleTime(i) <= Timeline!SampleTime(j)
<1>1. \A i \in Timeline!Samples : i \in Int /\ Timeline!SampleTime(i) \in Int
  BY DEF Read, Timeline!Samples, Timeline!SampleTime
<1> QED
  BY <1>1 DEF Timeline!Precedes

\* A set of samples has one that no other precedes, and one that precedes none.
LEMMA SampleEnds ==
  ASSUME input \in Read, Timeline!ProfileStart \in Int,
         NEW S \in SUBSET Timeline!Samples, S # {}
  PROVE  /\ \E i \in S : \A j \in S : j = i \/ Timeline!Precedes(i, j)
         /\ \E i \in S : \A j \in S : j = i \/ Timeline!Precedes(j, i)
<1> DEFINE n == Len(input.profile)
           R == {p \in (1..n) \X (1..n) : Timeline!Precedes(p[1], p[2])}
           Q == {p \in (1..n) \X (1..n) : Timeline!Precedes(p[2], p[1])}
<1>1. n \in Nat /\ Timeline!Samples = 1..n
  BY DEF Read, Timeline!Samples
<1>2. \A i, j \in S : <<i, j>> \in R <=> Timeline!Precedes(i, j)
  BY <1>1
<1>3. \A i, j \in S : <<i, j>> \in Q <=> Timeline!Precedes(j, i)
  BY <1>1
<1> HIDE DEF R, Q, n
<1>4. S \in SUBSET (1..n)
  BY <1>1
<1>5. \E i \in S : \A j \in S : j = i \/ Timeline!Precedes(i, j)
  <2>1. \A i \in S : <<i, i>> \notin R
    BY <1>2, PrecedesIsOrder
  <2>2. \A i, j, k \in S : <<i, j>> \in R /\ <<j, k>> \in R => <<i, k>> \in R
    BY <1>2, PrecedesIsOrder
  <2>3. PICK i \in S : \A j \in S : <<j, i>> \notin R
    BY <1>1, <1>4, <2>1, <2>2, FirstPlace
  <2> QED
    BY <1>2, <2>3, PrecedesIsOrder
<1>6. \E i \in S : \A j \in S : j = i \/ Timeline!Precedes(j, i)
  <2>1. \A i \in S : <<i, i>> \notin Q
    BY <1>3, PrecedesIsOrder
  <2>2. \A i, j, k \in S : <<i, j>> \in Q /\ <<j, k>> \in Q => <<i, k>> \in Q
    BY <1>3, PrecedesIsOrder
  <2>3. PICK i \in S : \A j \in S : <<j, i>> \notin Q
    BY <1>1, <1>4, <2>1, <2>2, FirstPlace
  <2> QED
    BY <1>3, <2>3, PrecedesIsOrder
<1> QED
  BY <1>5, <1>6

Due(t) == {i \in Timeline!Samples : Timeline!SampleTime(i) <= t}

\* _latest_profile_sample is the last one that is due, or the first of all.
LEMMA SampleInForce ==
  ASSUME input \in Read, Timeline!ProfileStart \in Int, NEW t \in Int, Timeline!Samples # {}
  PROVE  LET c == Timeline!Communication(t) IN
         /\ c \in Timeline!Samples
         /\ Due(t) # {} => /\ c \in Due(t)
                           /\ \A i \in Due(t) : i = c \/ Timeline!Precedes(i, c)
         /\ Due(t) = {} => \A i \in Timeline!Samples : i = c \/ Timeline!Precedes(c, i)
<1> DEFINE Passed == {i \in Timeline!Samples :
                        \A j \in Timeline!Samples :
                          j = i \/ Timeline!Precedes(j, i) => Timeline!SampleTime(j) <= t}
           c == Timeline!Communication(t)
<1>1. Passed = Due(t)
  <2>1. \A i \in Passed : i \in Due(t)
    BY DEF Due
  <2>2. ASSUME NEW i \in Due(t) PROVE i \in Passed
    <3>1. ASSUME NEW j \in Timeline!Samples, j = i \/ Timeline!Precedes(j, i)
          PROVE  Timeline!SampleTime(j) <= t
      BY <2>2, <3>1, PrecedesIsOrder DEF Due
    <3> QED
      BY <2>2, <3>1 DEF Due
  <2> QED
    BY <2>1, <2>2
<1>2. c = IF Passed = {} THEN CHOOSE i \in Timeline!Samples : \A j \in Timeline!Samples : j = i \/ Timeline!Precedes(i, j)
                         ELSE CHOOSE i \in Passed : \A j \in Passed : j = i \/ Timeline!Precedes(j, i)
  BY DEF Timeline!Communication
<1>3. Passed \in SUBSET Timeline!Samples
  OBVIOUS
<1> HIDE DEF c, Passed
<1>4. CASE Passed = {}
  <2>1. \E i \in Timeline!Samples : \A j \in Timeline!Samples : j = i \/ Timeline!Precedes(i, j)
    BY SampleEnds
  <2>2. c \in Timeline!Samples /\ \A j \in Timeline!Samples : j = c \/ Timeline!Precedes(c, j)
    BY <1>2, <1>4, <2>1
  <2> QED
    BY <1>1, <1>4, <2>2 DEF c
<1>5. CASE Passed # {}
  <2>1. \E i \in Passed : \A j \in Passed : j = i \/ Timeline!Precedes(j, i)
    BY <1>3, <1>5, SampleEnds
  <2>2. c \in Passed /\ \A j \in Passed : j = c \/ Timeline!Precedes(j, c)
    BY <1>2, <1>5, <2>1
  <2> QED
    BY <1>1, <1>3, <1>5, <2>2 DEF c
<1> QED
  BY <1>4, <1>5

Near(sat, t) ==
  {i \in DOMAIN input.visibility : input.visibility[i].sat = sat /\ Timeline!Off(i, t) <= Nearby}

LEMMA NearestVisibility ==
  ASSUME input \in Read, NEW t \in Int, NEW sat
  PROVE  LET v == Timeline!Visibility(sat, t) IN
         /\ \A i \in DOMAIN input.visibility : Timeline!Off(i, t) \in Nat
         /\ Near(sat, t) = {} => v = None
         /\ Near(sat, t) # {} => v \in Near(sat, t) /\ v \in Int
                                 /\ \A j \in Near(sat, t) : Timeline!Off(v, t) <= Timeline!Off(j, t)
<1> DEFINE v == Timeline!Visibility(sat, t)
           S == Near(sat, t)
           n == Len(input.visibility)
           Closer(i, j) == \/ Timeline!Off(i, t) < Timeline!Off(j, t)
                           \/ Timeline!Off(i, t) = Timeline!Off(j, t) /\ i < j
           R == {p \in (1..n) \X (1..n) : Closer(p[1], p[2])}
<1>1. n \in Nat /\ DOMAIN input.visibility = 1..n
  BY DEF Read
<1>2. \A i \in DOMAIN input.visibility : Timeline!Off(i, t) \in Nat
  <2>1. input.visibility \in Seq([sat : Visible, t : Int])
    BY DEF Read
  <2>2. \A i \in DOMAIN input.visibility : input.visibility[i] \in [sat : Visible, t : Int]
    <3> DEFINE V == [sat : Visible, t : Int]
    <3> HIDE DEF V
    <3>1. \A s \in Seq(V) : \A i \in DOMAIN s : s[i] \in V
      OBVIOUS
    <3> QED
      BY <2>1, <3>1 DEF V
  <2>3. \A i \in DOMAIN input.visibility : input.visibility[i].t \in Int
    BY <2>2
  <2> QED
    BY <2>3 DEF Timeline!Off
<1>3. v = IF S = {} THEN None
          ELSE CHOOSE i \in S : \A j \in S : Timeline!Off(i, t) < Timeline!Off(j, t)
                                             \/ (Timeline!Off(i, t) = Timeline!Off(j, t) /\ i <= j)
  BY DEF Timeline!Visibility, Near
<1>4. S \in SUBSET (1..n) /\ \A i \in S : Timeline!Off(i, t) \in Nat
  BY <1>1, <1>2 DEF Near
<1>5. \A i, j \in S : <<i, j>> \in R <=> Closer(i, j)
  BY <1>4
<1> HIDE DEF n, S, v, R
<1>6. S # {} => \E i \in S : \A j \in S : Timeline!Off(i, t) < Timeline!Off(j, t)
                                          \/ (Timeline!Off(i, t) = Timeline!Off(j, t) /\ i <= j)
  <2> SUFFICES ASSUME S # {}
               PROVE  \E i \in S : \A j \in S : Timeline!Off(i, t) < Timeline!Off(j, t)
                                          \/ (Timeline!Off(i, t) = Timeline!Off(j, t) /\ i <= j)
    OBVIOUS
  <2>1. \A i \in S : <<i, i>> \notin R
    BY <1>4, <1>5
  <2>2. \A i, j, k \in S : <<i, j>> \in R /\ <<j, k>> \in R => <<i, k>> \in R
    BY <1>4, <1>5
  <2>3. PICK i \in S : \A j \in S : <<j, i>> \notin R
    BY <1>1, <1>4, <2>1, <2>2, FirstPlace
  <2> QED
    <3>1. \A j \in S : ~ Closer(j, i)
      BY <1>5, <2>3
    <3>2. \A j \in S : j \in Int
      BY <1>1, <1>4
    <3> QED
      BY <1>4, <3>1, <3>2
<1>7. S # {} => v \in S /\ v \in Int /\ \A j \in S : Timeline!Off(v, t) <= Timeline!Off(j, t)
  <2> SUFFICES ASSUME S # {}
               PROVE  v \in S /\ v \in Int /\ \A j \in S : Timeline!Off(v, t) <= Timeline!Off(j, t)
    OBVIOUS
  <2>1. v \in S /\ \A j \in S : Timeline!Off(v, t) < Timeline!Off(j, t)
                               \/ (Timeline!Off(v, t) = Timeline!Off(j, t) /\ v <= j)
    BY <1>3, <1>6
  <2> QED
    BY <1>1, <1>4, <2>1
<1> QED
  BY <1>2, <1>3, <1>4, <1>7 DEF S, v

LEMMA TimelineInit == Init => TimelineInv
<1> USE PagesAssumption DEF PagesAssumption, TimelineInv
<1>1. TimelineRests => TimelineInv
  BY DEF TimelineRests, Read, Maybe
<1>2. ASSUME Timeline!Init PROVE TimelineInv
  <2>1. input \in Pages /\ frames = <<>>
    BY <1>2 DEF Timeline!Init
  <2>2. input \in Read /\ input.observations # <<>>
    BY <2>1 DEF Pages, Read
  <2> QED
    BY <2>1, <2>2
<1> QED
  BY <1>1, <1>2, TimelineOrRests

LEMMA TimelineNext == TimelineInv /\ [Timeline!Next]_(Timeline!vars) => TimelineInv'
<1> SUFFICES ASSUME TimelineInv, [Timeline!Next]_(Timeline!vars) PROVE TimelineInv'
  OBVIOUS
<1>1. ASSUME Timeline!AddFrame PROVE TimelineInv'
  <2>1. UNCHANGED input
    BY <1>1 DEF Timeline!AddFrame
  <2>2. PICK t \in Timeline!Times \ Timeline!Shown :
          /\ \A u \in Timeline!Times \ Timeline!Shown : t <= u
          /\ frames' = Append(frames, Timeline!FrameOf(t))
    BY <1>1 DEF Timeline!AddFrame
  <2> DEFINE n == Len(frames)
             f == Timeline!FrameOf(t)
  <2>3. n \in Nat /\ DOMAIN frames = 1..n
    BY DEF TimelineInv
  <2>4. f.t = t
    BY DEF Timeline!FrameOf
  <2> HIDE DEF f
  <2>5. /\ Len(frames') = n + 1 /\ DOMAIN frames' = 1..(n + 1)
        /\ \A k \in 1..n : frames'[k] = frames[k]
        /\ frames'[n + 1] = f
    <3>1. frames' = Append(frames, f)
      BY <2>2 DEF f
    <3> QED
      BY <2>3, <3>1
  <2>6. /\ Timeline!Times' = Timeline!Times
        /\ \A u : Timeline!FrameOf(u)' = Timeline!FrameOf(u)
    BY <2>1, TimelineKeeps
  <2>7. Timeline!Shown' = Timeline!Shown \cup {t}
    <3>1. Timeline!Shown' = {frames'[k].t : k \in 1..(n + 1)}
      BY <2>5 DEF Timeline!Shown
    <3>2. Timeline!Shown = {frames[k].t : k \in 1..n}
      BY <2>3 DEF Timeline!Shown
    <3> QED
      BY <2>3, <2>4, <2>5, <3>1, <3>2
  <2>8. \A k \in DOMAIN frames' :
          frames'[k].t \in Timeline!Times /\ frames'[k] = Timeline!FrameOf(frames'[k].t)
    BY <2>2, <2>3, <2>4, <2>5 DEF TimelineInv, f
  <2>9. \A k \in 1..n : frames[k].t < t
    BY <2>2, <2>3 DEF TimelineInv
  <2>10. \A k, m \in DOMAIN frames' : k < m => frames'[k].t < frames'[m].t
    BY <2>3, <2>4, <2>5, <2>9 DEF TimelineInv
  <2>11. Timeline!Times \subseteq Int
    BY FirstIsLeast DEF TimelineInv
  <2>12. \A k \in DOMAIN frames' : \A u \in Timeline!Times \ (Timeline!Shown \cup {t}) : frames'[k].t < u
    <3>1. \A u \in Timeline!Times \ (Timeline!Shown \cup {t}) : t < u
      BY <2>2, <2>11
    <3>2. \A k \in 1..n : \A u \in Timeline!Times \ Timeline!Shown : frames[k].t < u
      BY <2>3 DEF TimelineInv
    <3> QED
      BY <2>3, <2>4, <2>5, <3>1, <3>2
  <2> QED
    BY <2>1, <2>3, <2>5, <2>6, <2>7, <2>8, <2>10, <2>12 DEF TimelineInv
<1>2. ASSUME UNCHANGED Timeline!vars PROVE TimelineInv'
  <2>1. UNCHANGED <<input, frames>>
    BY <1>2 DEF Timeline!vars
  <2> QED
    BY <2>1, TimelineKeeps DEF TimelineInv, Timeline!Shown
<1> QED
  BY <1>1, <1>2 DEF Timeline!Next

\* Frames are of instants, and the profile starts at one.
LEMMA FramesAreTyped ==
  ASSUME TimelineInv, NEW k \in DOMAIN frames
  PROVE  /\ frames[k].t \in Int /\ Timeline!ProfileStart \in Int /\ input \in Read
         /\ frames[k].communication = Timeline!Communication(frames[k].t)
         /\ frames[k].visibility = [sat \in Timeline!Sats |-> Timeline!Visibility(sat, frames[k].t)]
         /\ frames[k].events = Timeline!Active(frames[k].t)
<1>1. frames[k].t \in Timeline!Times /\ frames[k] = Timeline!FrameOf(frames[k].t) /\ input \in Read
  BY DEF TimelineInv
<1>2. Timeline!Times \subseteq Int /\ Timeline!ProfileStart \in Int
  BY <1>1, FirstIsLeast
<1> DEFINE t == frames[k].t
<1>3. /\ Timeline!FrameOf(t).communication = Timeline!Communication(t)
      /\ Timeline!FrameOf(t).visibility = [sat \in Timeline!Sats |-> Timeline!Visibility(sat, t)]
      /\ Timeline!FrameOf(t).events = Timeline!Active(t)
  BY DEF Timeline!FrameOf
<1> QED
  BY <1>1, <1>2, <1>3

LEMMA InForceHolds == TimelineInv => Timeline!ShowsWhatWasInForce
<1> SUFFICES ASSUME TimelineInv, NEW k \in DOMAIN frames, Due(frames[k].t) # {}
             PROVE  LET c == frames[k].communication IN
                    /\ c \in Due(frames[k].t)
                    /\ \A i \in Due(frames[k].t) : Timeline!SampleTime(i) <= Timeline!SampleTime(c)
                    /\ \A i \in Due(frames[k].t) : Timeline!SampleTime(i) = Timeline!SampleTime(c) => i <= c
  BY DEF Timeline!ShowsWhatWasInForce, Due
<1> DEFINE t == frames[k].t
           c == frames[k].communication
<1>1. t \in Int /\ Timeline!ProfileStart \in Int /\ input \in Read /\ c = Timeline!Communication(t)
  BY FramesAreTyped
<1> HIDE DEF t, c
<1>2. Due(t) # {}
  BY DEF t
<1>3. Timeline!Samples # {}
  BY <1>2 DEF Due
<1>4. c \in Due(t) /\ \A i \in Due(t) : i = c \/ Timeline!Precedes(i, c)
  BY <1>1, <1>2, <1>3, SampleInForce
<1>5. Due(t) \subseteq Timeline!Samples
  BY DEF Due
<1>6. \A i \in Due(t) : Timeline!SampleTime(i) <= Timeline!SampleTime(c)
  BY <1>1, <1>4, <1>5, PrecedesIsOrder
<1>7. \A i \in Due(t) : Timeline!SampleTime(i) = Timeline!SampleTime(c) => i <= c
  BY <1>1, <1>4, <1>5, PrecedesIsOrder DEF Timeline!Precedes
<1> QED
  BY <1>4, <1>6, <1>7 DEF t, c

LEMMA AdvancesHolds == TimelineInv => Timeline!CommunicationAdvances
<1> SUFFICES ASSUME TimelineInv, NEW k \in DOMAIN frames, NEW m \in DOMAIN frames, k < m
             PROVE  /\ frames[k].t < frames[m].t
                    /\ Timeline!Samples # {} =>
                         Timeline!SampleTime(frames[k].communication) <= Timeline!SampleTime(frames[m].communication)
  BY DEF Timeline!CommunicationAdvances
<1> DEFINE t == frames[k].t
           u == frames[m].t
           c == frames[k].communication
           d == frames[m].communication
<1>1. /\ t \in Int /\ u \in Int /\ Timeline!ProfileStart \in Int /\ input \in Read
      /\ c = Timeline!Communication(t) /\ d = Timeline!Communication(u)
  BY FramesAreTyped
<1>2. t < u
  BY DEF TimelineInv
<1> HIDE DEF t, u, c, d
<1>3. ASSUME Timeline!Samples # {} PROVE Timeline!SampleTime(c) <= Timeline!SampleTime(d)
  <2>1. \A i \in Timeline!Samples : Timeline!SampleTime(i) \in Int
    BY <1>1, PrecedesIsOrder
  <2>2. Due(t) \subseteq Due(u) /\ Due(t) \subseteq Timeline!Samples /\ Due(u) \subseteq Timeline!Samples
    BY <1>1, <1>2, <2>1 DEF Due
  <2>3. c \in Timeline!Samples /\ d \in Timeline!Samples
    BY <1>1, <1>3, SampleInForce
  <2>4. CASE Due(t) # {}
    <3>1. c \in Due(t)
      BY <1>1, <1>3, <2>4, SampleInForce
    <3>2. c \in Due(u) /\ Due(u) # {}
      BY <2>2, <3>1
    <3>3. c = d \/ Timeline!Precedes(c, d)
      BY <1>1, <1>3, <3>2, SampleInForce
    <3> QED
      BY <1>1, <2>1, <2>3, <3>3, PrecedesIsOrder
  <2>5. CASE Due(t) = {}
    <3>1. d = c \/ Timeline!Precedes(c, d)
      BY <1>1, <1>3, <2>3, <2>5, SampleInForce
    <3> QED
      BY <1>1, <2>1, <2>3, <3>1, PrecedesIsOrder
  <2> QED
    BY <2>4, <2>5
<1> QED
  BY <1>2, <1>3 DEF t, u, c, d

LEMMA OwnHolds == TimelineInv => Timeline!OwnVisibility
<1> SUFFICES ASSUME TimelineInv, NEW k \in DOMAIN frames, NEW sat \in Timeline!Sats
             PROVE  LET t == frames[k].t
                        v == frames[k].visibility[sat]
                    IN  /\ (\E i \in DOMAIN input.visibility : input.visibility[i].sat = sat /\ input.visibility[i].t = t)
                             => v # None /\ input.visibility[v].t = t
                        /\ \A m \in 1..(k - 1) : t - frames[m].t > 2 * Nearby /\ v # None
                             => frames[m].visibility[sat] # v
  BY DEF Timeline!OwnVisibility
<1> USE NoneAssumption, PagesAssumption DEF NoneAssumption, PagesAssumption
<1> DEFINE t == frames[k].t
           v == frames[k].visibility[sat]
<1>1. t \in Int /\ input \in Read /\ v = Timeline!Visibility(sat, t)
  BY FramesAreTyped
<1>2. \A i \in DOMAIN input.visibility : input.visibility[i].t \in Int
  <2> DEFINE V == [sat : Visible, t : Int]
  <2>1. \A x \in V : x.t \in Int
    OBVIOUS
  <2>2. input.visibility \in Seq(V)
    BY <1>1 DEF Read
  <2> HIDE DEF V
  <2> QED
    BY <2>1, <2>2
<1> HIDE DEF t, v
<1>3. ASSUME NEW i \in DOMAIN input.visibility, input.visibility[i].sat = sat, input.visibility[i].t = t
      PROVE  v # None /\ input.visibility[v].t = t
  <2>1. Timeline!Off(i, t) = 0
    BY <1>1, <1>3 DEF Timeline!Off
  <2>2. i \in Near(sat, t)
    BY <1>3, <2>1 DEF Near
  <2>3. v \in Near(sat, t) /\ v \in Int /\ Timeline!Off(v, t) <= 0
    BY <1>1, <2>1, <2>2, NearestVisibility
  <2>4. v \in DOMAIN input.visibility
    BY <2>3 DEF Near
  <2>5. Timeline!Off(v, t) \in Nat
    BY <1>1, <2>4, NearestVisibility
  <2> QED
    BY <1>1, <1>2, <2>3, <2>4, <2>5 DEF Timeline!Off
<1>4. ASSUME NEW m \in 1..(k - 1), t - frames[m].t > 2 * Nearby, v # None, frames[m].visibility[sat] = v
      PROVE  FALSE
  <2> DEFINE u == frames[m].t
  <2>1. m \in DOMAIN frames
    BY DEF TimelineInv
  <2>2. u \in Int /\ v = Timeline!Visibility(sat, u)
    BY <1>4, <2>1, FramesAreTyped
  <2>3. t - u > 2 * Nearby
    BY <1>4
  <2> HIDE DEF u
  <2>4. v \in Near(sat, t)
    BY <1>1, <1>4, NearestVisibility
  <2>5. v \in Near(sat, u)
    BY <1>1, <1>4, <2>2, NearestVisibility
  <2>6. v \in DOMAIN input.visibility /\ Timeline!Off(v, t) <= Nearby /\ Timeline!Off(v, u) <= Nearby
    BY <2>4, <2>5 DEF Near
  <2>7. input.visibility[v].t \in Int
    BY <1>2, <2>6
  <2>8. input.visibility[v].t >= t - Nearby /\ input.visibility[v].t <= u + Nearby
    BY <1>1, <2>2, <2>6, <2>7 DEF Timeline!Off
  <2> QED
    BY <1>1, <2>2, <2>3, <2>7, <2>8
<1> QED
  BY <1>3, <1>4 DEF t, v

LEMMA LongEventHolds == TimelineInv => Timeline!EveryLongEventSeen
<1> SUFFICES ASSUME TimelineInv, Timeline!Built,
                    \A t \in Timeline!Times : t = Timeline!First
                      \/ \E u \in Timeline!Times : t - Timeline!Gap <= u /\ u < t,
                    NEW k \in DOMAIN input.events,
                    input.events[k].end - input.events[k].start >= Timeline!Gap,
                    Timeline!ProfileStart + input.events[k].start >= Timeline!First,
                    NEW z \in Timeline!Times, z >= Timeline!ProfileStart + input.events[k].end
             PROVE  \E m \in DOMAIN frames : k \in frames[m].events
  BY DEF Timeline!EveryLongEventSeen
<1> USE DEF Timeline!Gap
<1>1. input \in Read
  BY DEF TimelineInv
<1>2. /\ Timeline!Times \subseteq Int /\ Timeline!ProfileStart \in Int
      /\ Timeline!First \in Timeline!Times /\ \A u \in Timeline!Times : Timeline!First <= u
  BY <1>1, FirstIsLeast
<1>3. input.events[k].start \in Int /\ input.events[k].end \in Int
  <2> DEFINE E == [start : Int, end : Int]
  <2>1. \A x \in E : x.start \in Int /\ x.end \in Int
    OBVIOUS
  <2>2. input.events \in Seq(E)
    BY <1>1 DEF Read
  <2> HIDE DEF E
  <2> QED
    BY <2>1, <2>2
<1> DEFINE a == Timeline!ProfileStart + input.events[k].start
           b == Timeline!ProfileStart + input.events[k].end
           Later == {t \in Timeline!Times : t >= a}
<1>4. a \in Int /\ b \in Int /\ b - a >= 2 /\ a >= Timeline!First /\ z >= b
  BY <1>2, <1>3
<1>5. \A t \in Int : a <= t /\ t <= b => k \in Timeline!Active(t)
  BY <1>2, <1>3 DEF Timeline!Active
<1> HIDE DEF a, b
<1>6. Later \in SUBSET Int /\ Later # {} /\ \A t \in Later : a <= t
  <2>1. z \in Int /\ z >= a
    BY <1>2, <1>4
  <2>2. z \in Later
    BY <2>1
  <2>3. \A t \in Later : t \in Int /\ a <= t
    BY <1>2, <1>4
  <2> QED
    BY <2>2, <2>3
<1>7. PICK t \in Later : \A u \in Later : t <= u
  <2> HIDE DEF Later
  <2> QED
    BY <1>4, <1>6, LeastInteger
<1>8. t \in Timeline!Times /\ t \in Int /\ a <= t
  BY <1>2, <1>7
<1>9. t <= b
  <2>1. CASE t = Timeline!First
    BY <1>2, <1>4, <1>8, <2>1
  <2>2. CASE t # Timeline!First
    <3>1. PICK u \in Timeline!Times : t - 2 <= u /\ u < t
      BY <1>8, <2>2
    <3>2. u \in Int
      BY <1>2
    <3>3. u < a
      BY <1>4, <1>7, <1>8, <3>1, <3>2
    <3> QED
      BY <1>4, <1>8, <3>1, <3>2, <3>3
  <2> QED
    BY <2>1, <2>2
<1>10. PICK m \in DOMAIN frames : frames[m].t = t
  BY <1>8 DEF Timeline!Built, Timeline!Shown
<1>11. k \in frames[m].events
  BY <1>5, <1>8, <1>9, <1>10, FramesAreTyped
<1> QED
  BY <1>11

\* For every page: a frame shows the sample a replay had in force at its time,
\* samples advance with the frames, the visibility is that of the very time,
\* and no event that lasts as long as the frames are apart falls between them
\* (_latest_profile_sample, _nearest_visibility, _active_events).
THEOREM FramesAreTrue == Spec => []FramesTrue
<1>1. Init => TimelineInv
  BY TimelineInit
<1>2. TimelineInv /\ [Next]_vars => TimelineInv'
  BY NextParts, TimelineNext
<1>3. TimelineInv => FramesTrue
  BY InForceHolds, AdvancesHolds, OwnHolds, LongEventHolds DEF FramesTrue
<1> QED
  BY <1>1, <1>2, <1>3, PTL DEF Spec

-----------------------------------------------------------------------------
(* The selection: keys in the order of Python.                              *)

Keys(m) == [1..m -> Int]

\* Tuples are in a strict order, by their first difference.
LEMMA LessIsOrder ==
  ASSUME NEW m \in Nat
  PROVE  /\ \A a \in Keys(m) : ~ Selection!Less(a, a)
         /\ \A a, b, c \in Keys(m) :
              Selection!Less(a, b) /\ Selection!Less(b, c) => Selection!Less(a, c)
<1>1. \A a \in Keys(m) : DOMAIN a = 1..m /\ \A k \in 1..m : a[k] \in Int
  BY DEF Keys
<1>2. \A a \in Keys(m) : ~ Selection!Less(a, a)
  BY <1>1 DEF Selection!Less
<1>3. ASSUME NEW a \in Keys(m), NEW b \in Keys(m), NEW c \in Keys(m),
             Selection!Less(a, b), Selection!Less(b, c)
      PROVE  Selection!Less(a, c)
  <2>1. PICK k \in 1..m : a[k] < b[k] /\ \A l \in 1..(k - 1) : a[l] = b[l]
    BY <1>1, <1>3 DEF Selection!Less
  <2>2. PICK q \in 1..m : b[q] < c[q] /\ \A l \in 1..(q - 1) : b[l] = c[l]
    BY <1>1, <1>3 DEF Selection!Less
  <2>3. CASE k <= q
    <3>1. a[k] < c[k]
      <4>1. k = q \/ k \in 1..(q - 1)
        BY <2>3
      <4>2. b[k] <= c[k]
        BY <1>1, <2>2, <4>1
      <4> QED
        BY <1>1, <2>1, <4>2
    <3>2. \A l \in 1..(k - 1) : a[l] = c[l]
      BY <2>1, <2>2, <2>3
    <3> QED
      BY <1>1, <3>1, <3>2 DEF Selection!Less
  <2>4. CASE q < k
    <3>1. a[q] < c[q]
      BY <1>1, <2>1, <2>2, <2>4
    <3>2. \A l \in 1..(q - 1) : a[l] = c[l]
      BY <2>1, <2>2, <2>4
    <3> QED
      BY <1>1, <3>1, <3>2 DEF Selection!Less
  <2> QED
    BY <2>3, <2>4
<1> QED
  BY <1>2, <1>3

\* So there is a greatest and a least place, and their keys begin accordingly.
LEMMA KeysHaveEnds ==
  ASSUME NEW n \in Nat, NEW S \in SUBSET (1..n), S # {},
         NEW m \in Nat \ {0}, NEW K, \A i \in S : K[i] \in Keys(m)
  PROVE  /\ \E i \in S : \A j \in S : ~ Selection!Less(K[i], K[j])
         /\ \E i \in S : \A j \in S : ~ Selection!Less(K[j], K[i])
<1> DEFINE Up == {p \in S \X S : Selection!Less(K[p[1]], K[p[2]])}
           Down == {p \in S \X S : Selection!Less(K[p[2]], K[p[1]])}
<1>1. \A i, j \in S : <<i, j>> \in Up <=> Selection!Less(K[i], K[j])
  OBVIOUS
<1>2. \A i, j \in S : <<i, j>> \in Down <=> Selection!Less(K[j], K[i])
  OBVIOUS
<1> HIDE DEF Up, Down
<1>3. \E i \in S : \A j \in S : ~ Selection!Less(K[j], K[i])
  <2>1. \A i \in S : <<i, i>> \notin Up
    BY <1>1, LessIsOrder
  <2>2. \A i, j, k \in S : <<i, j>> \in Up /\ <<j, k>> \in Up => <<i, k>> \in Up
    BY <1>1, LessIsOrder
  <2>3. PICK i \in S : \A j \in S : <<j, i>> \notin Up
    BY <2>1, <2>2, FirstPlace
  <2> QED
    BY <1>1, <2>3
<1>4. \E i \in S : \A j \in S : ~ Selection!Less(K[i], K[j])
  <2>1. \A i \in S : <<i, i>> \notin Down
    BY <1>2, LessIsOrder
  <2>2. \A i, j, k \in S : <<i, j>> \in Down /\ <<j, k>> \in Down => <<i, k>> \in Down
    BY <1>2, LessIsOrder
  <2>3. PICK i \in S : \A j \in S : <<j, i>> \notin Down
    BY <2>1, <2>2, FirstPlace
  <2> QED
    BY <1>2, <2>3
<1> QED
  BY <1>3, <1>4

LEMMA NotLess ==
  ASSUME NEW m \in Nat \ {0}, NEW a \in Keys(m), NEW b \in Keys(m), ~ Selection!Less(a, b)
  PROVE  b[1] <= a[1]
<1>1. a[1] \in Int /\ b[1] \in Int /\ DOMAIN a = 1..m /\ 1 \in 1..m
  BY DEF Keys
<1>2. ~ (a[1] < b[1])
  <2> SUFFICES ASSUME a[1] < b[1] PROVE FALSE
    OBVIOUS
  <2>1. \A l \in 1..(1 - 1) : a[l] = b[l]
    OBVIOUS
  <2> QED
    BY <1>1, <2>1 DEF Selection!Less
<1> QED
  BY <1>1, <1>2

LEMMA LessOfFour ==
  ASSUME NEW a \in Keys(4), NEW b \in Keys(4)
  PROVE  Selection!Less(a, b) <=>
           \/ a[1] < b[1]
           \/ a[1] = b[1] /\ a[2] < b[2]
           \/ a[1] = b[1] /\ a[2] = b[2] /\ a[3] < b[3]
           \/ a[1] = b[1] /\ a[2] = b[2] /\ a[3] = b[3] /\ a[4] < b[4]
<1> DEFINE At(k) == a[k] < b[k] /\ \A l \in 1..(k - 1) : a[l] = b[l]
<1>1. Selection!Less(a, b) <=> \E k \in 1..4 : At(k)
  BY DEF Selection!Less, Keys
<1>2. (\E k \in 1..4 : At(k)) <=> At(1) \/ At(2) \/ At(3) \/ At(4)
  <2> HIDE DEF At
  <2>1. \A k \in 1..4 : k = 1 \/ k = 2 \/ k = 3 \/ k = 4
    OBVIOUS
  <2> QED
    BY <2>1
<1>3. At(1) <=> a[1] < b[1]
  OBVIOUS
<1>4. At(2) <=> a[1] = b[1] /\ a[2] < b[2]
  OBVIOUS
<1>5. At(3) <=> a[1] = b[1] /\ a[2] = b[2] /\ a[3] < b[3]
  <2>1. \A l \in 1..2 : l = 1 \/ l = 2
    OBVIOUS
  <2> QED
    BY <2>1
<1>6. At(4) <=> a[1] = b[1] /\ a[2] = b[2] /\ a[3] = b[3] /\ a[4] < b[4]
  <2>1. \A l \in 1..3 : l = 1 \/ l = 2 \/ l = 3
    OBVIOUS
  <2> QED
    BY <2>1
<1> HIDE DEF At
<1> QED
  BY <1>1, <1>2, <1>3, <1>4, <1>5, <1>6

CausalKey(h, t, i) == <<h[i].created, -Selection!Distance(h[i], t)>> \o Selection!Tiebreak(h, i)
BeforeKey(h, i)    == <<h[i].epoch>> \o Selection!Tiebreak(h, i)
AfterKey(h, i)     == <<h[i].epoch, -Selection!IdOf(h[i]), -i>>
CreatedRank(r)     == IF r.created = None THEN Selection!Infinity ELSE -r.created
NearKey(h, t, i)   ==
  <<Selection!Distance(h[i], t), CreatedRank(h[i]), -Selection!IdOf(h[i]), -i>>

LEMMA RecordsAreTyped ==
  ASSUME NEW r \in Elements, NEW t \in Int
  PROVE  /\ r.epoch \in Int /\ r.sat \in Visible /\ (r.created # None => r.created \in Int)
         /\ Selection!IdOf(r) \in Int /\ Selection!Distance(r, t) \in Nat
         /\ CreatedRank(r) \in Int
         /\ r.epoch <= t => Selection!Distance(r, t) = t - r.epoch
         /\ r.epoch >= t => Selection!Distance(r, t) = r.epoch - t
<1>1. r.epoch \in Int /\ r.sat \in Visible /\ (r.created # None => r.created \in Int)
      /\ (r.id # None => r.id \in Int)
  BY DEF Elements, Maybe
<1>2. Selection!IdOf(r) \in Int /\ CreatedRank(r) \in Int
  BY <1>1 DEF Selection!IdOf, CreatedRank, Selection!Infinity
<1>3. /\ Selection!Distance(r, t) \in Nat
      /\ r.epoch <= t => Selection!Distance(r, t) = t - r.epoch
      /\ r.epoch >= t => Selection!Distance(r, t) = r.epoch - t
  BY <1>1 DEF Selection!Distance, Selection!Abs
<1> QED
  BY <1>1, <1>2, <1>3

LEMMA CausalKeyIs ==
  ASSUME NEW h, NEW i \in Nat, h[i] \in Elements, h[i].created # None, NEW t \in Int
  PROVE  /\ CausalKey(h, t, i) \in Keys(4)
         /\ CausalKey(h, t, i)[1] = h[i].created
         /\ CausalKey(h, t, i)[2] = -Selection!Distance(h[i], t)
         /\ CausalKey(h, t, i)[3] = Selection!IdOf(h[i])
         /\ CausalKey(h, t, i)[4] = i
<1> DEFINE a == h[i].created
           b == -Selection!Distance(h[i], t)
           c == Selection!IdOf(h[i])
<1>1. a \in Int /\ b \in Int /\ c \in Int /\ i \in Int
  <2>1. /\ h[i].created \in Int /\ Selection!Distance(h[i], t) \in Nat
        /\ Selection!IdOf(h[i]) \in Int
    BY RecordsAreTyped
  <2> QED
    BY <2>1
<1>2. CausalKey(h, t, i) = <<a, b>> \o <<c, i>>
  BY DEF CausalKey, Selection!Tiebreak
<1> HIDE DEF a, b, c
<1> DEFINE s == <<a, b>> \o <<c, i>>
<1>3. <<a, b>> \in Seq(Int) /\ <<c, i>> \in Seq(Int) /\ Len(<<a, b>>) = 2 /\ Len(<<c, i>>) = 2
  BY <1>1
<1>4. s \in Seq(Int) /\ Len(s) = 4
  BY <1>3
<1>5. s[1] = a /\ s[2] = b /\ s[3] = c /\ s[4] = i
  BY <1>3
<1> HIDE DEF s
<1>6. s \in Keys(4)
  <2>1. \A x \in Seq(Int) : x \in [1..Len(x) -> Int]
    OBVIOUS
  <2> QED
    BY <1>4, <2>1 DEF Keys
<1> QED
  BY <1>2, <1>5, <1>6 DEF a, b, c, s

LEMMA BeforeKeyIs ==
  ASSUME NEW h, NEW i \in Nat, h[i] \in Elements
  PROVE  BeforeKey(h, i) \in Keys(3) /\ BeforeKey(h, i)[1] = h[i].epoch
<1> DEFINE a == h[i].epoch
           c == Selection!IdOf(h[i])
<1>1. a \in Int /\ c \in Int /\ i \in Int
  BY RecordsAreTyped
<1>2. BeforeKey(h, i) = <<a>> \o <<c, i>>
  BY DEF BeforeKey, Selection!Tiebreak
<1> HIDE DEF a, c
<1> DEFINE s == <<a>> \o <<c, i>>
<1>3. <<a>> \in Seq(Int) /\ <<c, i>> \in Seq(Int) /\ Len(<<a>>) = 1 /\ Len(<<c, i>>) = 2
  BY <1>1
<1>4. s \in Seq(Int) /\ Len(s) = 3 /\ s[1] = a
  BY <1>3
<1> HIDE DEF s
<1>5. s \in Keys(3)
  <2>1. \A x \in Seq(Int) : x \in [1..Len(x) -> Int]
    OBVIOUS
  <2> QED
    BY <1>4, <2>1 DEF Keys
<1> QED
  BY <1>2, <1>4, <1>5 DEF a, c, s

LEMMA AfterKeyIs ==
  ASSUME NEW h, NEW i \in Nat, h[i] \in Elements
  PROVE  AfterKey(h, i) \in Keys(3) /\ AfterKey(h, i)[1] = h[i].epoch
<1> DEFINE a == h[i].epoch
           c == Selection!IdOf(h[i])
<1>1. a \in Int /\ c \in Int /\ i \in Int
  BY RecordsAreTyped
<1>2. AfterKey(h, i) = <<a, -c, -i>>
  BY DEF AfterKey
<1> HIDE DEF a, c
<1>3. <<a, -c, -i>> \in Keys(3)
  BY <1>1 DEF Keys
<1> QED
  BY <1>2, <1>3 DEF a, c

LEMMA NearKeyIs ==
  ASSUME NEW h, NEW i \in Nat, h[i] \in Elements, NEW t \in Int
  PROVE  NearKey(h, t, i) \in Keys(4) /\ NearKey(h, t, i)[1] = Selection!Distance(h[i], t)
<1>1. /\ Selection!Distance(h[i], t) \in Int /\ CreatedRank(h[i]) \in Int
      /\ -Selection!IdOf(h[i]) \in Int /\ -i \in Int
  BY RecordsAreTyped
<1> QED
  BY <1>1 DEF NearKey, Keys

\* _select_causal gives the newest of what is eligible, if there is any.
LEMMA CausalIsGreatest ==
  ASSUME NEW h, NEW n \in Nat, NEW S \in SUBSET (1..n), \A i \in S : h[i] \in Elements,
         NEW t \in Int
  PROVE  LET E == Selection!Eligible(h, S, t)
             c == Selection!Causal(h, S, t)
         IN  /\ E = {} => c = None
             /\ E # {} => /\ c \in E
                          /\ \A j \in E : ~ Selection!Less(CausalKey(h, t, c), CausalKey(h, t, j))
<1> DEFINE E == Selection!Eligible(h, S, t)
           c == Selection!Causal(h, S, t)
           K == [i \in E |-> CausalKey(h, t, i)]
<1>1. c = IF E = {} THEN None
          ELSE CHOOSE i \in E : \A j \in E : ~ Selection!Less(CausalKey(h, t, i), CausalKey(h, t, j))
  BY DEF Selection!Causal, Selection!Greatest, CausalKey
<1>2. E \in SUBSET (1..n) /\ \A i \in E : i \in Nat /\ h[i] \in Elements /\ h[i].created # None
  <2>1. \A i \in E : i \in S /\ h[i].created # None
    BY DEF Selection!Eligible
  <2> HIDE DEF E
  <2>2. \A i \in S : i \in 1..n /\ i \in Nat
    OBVIOUS
  <2> QED
    BY <2>1, <2>2
<1> HIDE DEF E, c
<1>3. \A i \in E : K[i] \in Keys(4)
  BY <1>2, CausalKeyIs
<1>4. ASSUME E # {}
      PROVE  \E i \in E : \A j \in E : ~ Selection!Less(CausalKey(h, t, i), CausalKey(h, t, j))
  <2>1. \A i \in E : K[i] = CausalKey(h, t, i)
    OBVIOUS
  <2> HIDE DEF K
  <2>2. PICK i \in E : \A j \in E : ~ Selection!Less(K[i], K[j])
    <3>1. E \in SUBSET (1..n) /\ 4 \in Nat \ {0}
      BY <1>2
    <3> QED
      BY <1>3, <1>4, <3>1, KeysHaveEnds
  <2> QED
    BY <2>1, <2>2
<1>5. E # {} => /\ c \in E
                /\ \A j \in E : ~ Selection!Less(CausalKey(h, t, c), CausalKey(h, t, j))
  BY <1>1, <1>4
<1> QED
  BY <1>1, <1>5 DEF E, c

\* _select_retrospective gives a nearest record.
LEMMA RetrospectiveIsNearest ==
  ASSUME NEW h, NEW n \in Nat, NEW S \in SUBSET (1..n), \A i \in S : h[i] \in Elements,
         NEW t \in Int, S # {}
  PROVE  LET r == Selection!Retrospective(h, S, t) IN
         /\ r \in S
         /\ \A j \in S : Selection!Distance(h[r], t) <= Selection!Distance(h[j], t)
<1> DEFINE r == Selection!Retrospective(h, S, t)
           K == [i \in S |-> NearKey(h, t, i)]
<1>1. r = CHOOSE i \in S : \A j \in S : ~ Selection!Less(NearKey(h, t, j), NearKey(h, t, i))
  BY DEF Selection!Retrospective, Selection!Least, NearKey, CreatedRank
<1> HIDE DEF r
<1>2. \A i \in S : i \in Nat
  OBVIOUS
<1>3. \A i \in S : K[i] = NearKey(h, t, i)
  OBVIOUS
<1> HIDE DEF K
<1>4. \A i \in S : K[i] \in Keys(4) /\ K[i][1] = Selection!Distance(h[i], t)
  BY <1>2, <1>3, NearKeyIs
<1>5. 4 \in Nat \ {0}
  OBVIOUS
<1>6. \E i \in S : \A j \in S : ~ Selection!Less(K[j], K[i])
  BY <1>4, <1>5, KeysHaveEnds
<1>7. r \in S /\ \A j \in S : ~ Selection!Less(K[j], K[r])
  BY <1>1, <1>3, <1>6
<1>8. ASSUME NEW j \in S PROVE Selection!Distance(h[r], t) <= Selection!Distance(h[j], t)
  <2>1. K[r][1] <= K[j][1]
    BY <1>4, <1>5, <1>7, NotLess
  <2> QED
    BY <1>4, <1>7, <2>1
<1> QED
  BY <1>7, <1>8 DEF r

\* _bracketing_sensitivity gives a last record before and a first one after.
LEMMA BracketEnds ==
  ASSUME NEW h, NEW n \in Nat, NEW S \in SUBSET (1..n), \A i \in S : h[i] \in Elements,
         NEW t \in Int
  PROVE  LET b == Selection!Bracket(h, S, t)
             Before == {i \in S : h[i].epoch <= t}
             After  == {i \in S : h[i].epoch >= t}
         IN  /\ Before # {} => b.before \in Before /\ \A j \in Before : h[j].epoch <= h[b.before].epoch
             /\ After # {} => b.after \in After /\ \A j \in After : h[b.after].epoch <= h[j].epoch
<1> DEFINE b == Selection!Bracket(h, S, t)
           Before == {i \in S : h[i].epoch <= t}
           After  == {i \in S : h[i].epoch >= t}
           K == [i \in S |-> BeforeKey(h, i)]
           L == [i \in S |-> AfterKey(h, i)]
<1>1. b.before = IF Before = {} THEN None
                 ELSE CHOOSE i \in Before : \A j \in Before : ~ Selection!Less(BeforeKey(h, i), BeforeKey(h, j))
  BY DEF Selection!Bracket, Selection!Greatest, BeforeKey
<1>2. b.after = IF After = {} THEN None
                ELSE CHOOSE i \in After : \A j \in After : ~ Selection!Less(AfterKey(h, j), AfterKey(h, i))
  BY DEF Selection!Bracket, Selection!Least, AfterKey
<1>3. Before \in SUBSET S /\ After \in SUBSET S
  OBVIOUS
<1> HIDE DEF b, Before, After
<1>4. \A i \in S : i \in Nat
  OBVIOUS
<1>5. \A i \in S : K[i] = BeforeKey(h, i) /\ L[i] = AfterKey(h, i)
  OBVIOUS
<1> HIDE DEF K, L
<1>6. \A i \in S : /\ K[i] \in Keys(3) /\ K[i][1] = h[i].epoch
                   /\ L[i] \in Keys(3) /\ L[i][1] = h[i].epoch
  <2> SUFFICES ASSUME NEW i \in S
               PROVE  /\ K[i] \in Keys(3) /\ K[i][1] = h[i].epoch
                      /\ L[i] \in Keys(3) /\ L[i][1] = h[i].epoch
    OBVIOUS
  <2>1. BeforeKey(h, i) \in Keys(3) /\ BeforeKey(h, i)[1] = h[i].epoch
    BY <1>4, BeforeKeyIs
  <2>2. AfterKey(h, i) \in Keys(3) /\ AfterKey(h, i)[1] = h[i].epoch
    BY <1>4, AfterKeyIs
  <2> QED
    BY <1>5, <2>1, <2>2
<1>7. 3 \in Nat \ {0} /\ Before \in SUBSET (1..n) /\ After \in SUBSET (1..n)
  BY <1>3
<1>8. ASSUME Before # {}
      PROVE  b.before \in Before /\ \A j \in Before : h[j].epoch <= h[b.before].epoch
  <2>1. \A i \in Before : K[i] \in Keys(3)
    BY <1>3, <1>6
  <2>2. \E i \in Before : \A j \in Before : ~ Selection!Less(K[i], K[j])
    BY <1>7, <1>8, <2>1, KeysHaveEnds
  <2>3. b.before \in Before /\ \A j \in Before : ~ Selection!Less(K[b.before], K[j])
    BY <1>1, <1>3, <1>5, <1>8, <2>2
  <2>4. ASSUME NEW j \in Before PROVE h[j].epoch <= h[b.before].epoch
    <3>1. K[j][1] <= K[b.before][1]
      BY <1>7, <2>1, <2>3, NotLess
    <3> QED
      BY <1>3, <1>6, <2>3, <3>1
  <2> QED
    BY <2>3, <2>4
<1>9. ASSUME After # {}
      PROVE  b.after \in After /\ \A j \in After : h[b.after].epoch <= h[j].epoch
  <2>1. \A i \in After : L[i] \in Keys(3)
    BY <1>3, <1>6
  <2>2. \E i \in After : \A j \in After : ~ Selection!Less(L[j], L[i])
    BY <1>7, <1>9, <2>1, KeysHaveEnds
  <2>3. b.after \in After /\ \A j \in After : ~ Selection!Less(L[j], L[b.after])
    BY <1>2, <1>3, <1>5, <1>9, <2>2
  <2>4. ASSUME NEW j \in After PROVE h[b.after].epoch <= h[j].epoch
    <3>1. L[b.after][1] <= L[j][1]
      BY <1>7, <2>1, <2>3, NotLess
    <3> QED
      BY <1>3, <1>6, <2>3, <3>1
  <2> QED
    BY <2>3, <2>4
<1> QED
  BY <1>8, <1>9 DEF b, Before, After

-----------------------------------------------------------------------------
(* The selection: its documents.                                            *)

\* Every observation so far has the documents of its time.
SelectionInv ==
  /\ history \in Seq(Elements) /\ times \in Seq(Int) /\ lag \in Int
  /\ Len(documents) \in 0..Len(times) /\ DOMAIN documents = 1..Len(documents)
  /\ \A k \in DOMAIN documents :
       documents[k] = [sat \in Selection!Sats |-> Selection!Document(sat, times[k])]

LEMMA SelectionKeeps ==
  ASSUME UNCHANGED <<history, mode, lag>>
  PROVE  /\ Selection!Sats' = Selection!Sats
         /\ \A sat, t : Selection!Document(sat, t)' = Selection!Document(sat, t)
<1>1. Selection!Sats' = Selection!Sats
  BY DEF Selection!Sats
<1>2. \A sat : Selection!Group(sat)' = Selection!Group(sat)
  BY DEF Selection!Group
<1>3. \A h, S, t : Selection!Causal(h, S, t)' = Selection!Causal(h, S, t)
  BY DEF Selection!Causal, Selection!Eligible, Selection!Greatest
<1>4. \A S : Selection!Missing(S)' = Selection!Missing(S)
  BY DEF Selection!Missing
<1>5. \A i, t : Selection!Stale(i, t)' = Selection!Stale(i, t) /\ Selection!Fails(i)' = Selection!Fails(i)
  BY DEF Selection!Stale, Selection!Fails
<1>6. \A c, r, t : Selection!SelectionFlags(c, r, t)' = Selection!SelectionFlags(c, r, t)
  BY <1>5 DEF Selection!SelectionFlags
<1>7. \A sat, t : Selection!Document(sat, t)' = Selection!Document(sat, t)
  BY <1>2, <1>3, <1>4, <1>5, <1>6 DEF Selection!Document
<1> QED
  BY <1>1, <1>7

LEMMA SelectionInit == Init => SelectionInv
<1> USE SelectionAssumption DEF SelectionAssumption, SelectionInv
<1>1. SelectionRests => SelectionInv
  BY DEF SelectionRests
<1>2. ASSUME Selection!Init PROVE SelectionInv
  <2>1. history \in Seq(Elements) /\ lag \in Int /\ documents = <<>>
    BY <1>2 DEF Selection!Init
  <2>2. PICK start \in Starts, step \in Steps : times = Selection!ObservationTimes(start, step)
    BY <1>2 DEF Selection!Init
  <2>3. start \in Int /\ step \in Nat \ {0}
    OBVIOUS
  <2> DEFINE n == (ObservedFor \div step) + 1
  <2>4. n \in Nat
    BY <2>3
  <2>5. times = [k \in 1..n |-> start + (k - 1) * step]
    BY <2>2 DEF Selection!ObservationTimes
  <2> HIDE DEF n
  <2>6. \A k \in 1..n : start + (k - 1) * step \in Int
    BY <2>3, <2>4
  <2>7. times \in [1..n -> Int]
    BY <2>5, <2>6
  <2>8. times \in Seq(Int)
    BY <2>4, <2>7
  <2> QED
    BY <2>1, <2>8
<1> QED
  BY <1>1, <1>2, SelectionOrRests

LEMMA SelectionNext == SelectionInv /\ [Selection!Next]_(Selection!vars) => SelectionInv'
<1> SUFFICES ASSUME SelectionInv, [Selection!Next]_(Selection!vars) PROVE SelectionInv'
  OBVIOUS
<1>1. ASSUME UNCHANGED <<history, times, mode, lag, documents>> PROVE SelectionInv'
  <2>1. /\ Selection!Sats' = Selection!Sats
        /\ \A sat, t : Selection!Document(sat, t)' = Selection!Document(sat, t)
    BY <1>1, SelectionKeeps
  <2> QED
    BY <1>1, <2>1 DEF SelectionInv
<1>2. ASSUME UNCHANGED <<history, times, mode, lag>>, Len(documents) < Len(times),
             documents' = Append(documents,
               [sat \in Selection!Sats |-> Selection!Document(sat, times[Len(documents) + 1])])
      PROVE  SelectionInv'
  <2> DEFINE n == Len(documents)
             DocumentsAt(k) == [sat \in Selection!Sats |-> Selection!Document(sat, times[k])]
  <2>1. n \in Nat /\ DOMAIN documents = 1..n /\ Len(times) \in Nat
    BY DEF SelectionInv
  <2>2. \A k \in DOMAIN documents : documents[k] = DocumentsAt(k)
    BY DEF SelectionInv
  <2>3. documents' = Append(documents, DocumentsAt(n + 1))
    BY <1>2
  <2>4. /\ Selection!Sats' = Selection!Sats
        /\ \A sat, t : Selection!Document(sat, t)' = Selection!Document(sat, t)
    BY <1>2, SelectionKeeps
  <2>5. \A k : DocumentsAt(k)' = DocumentsAt(k)
    BY <1>2, <2>4
  <2> HIDE DEF DocumentsAt
  <2>6. /\ Len(documents') = n + 1 /\ DOMAIN documents' = 1..(n + 1)
        /\ \A k \in 1..n : documents'[k] = documents[k]
        /\ documents'[n + 1] = DocumentsAt(n + 1)
    BY <2>1, <2>3
  <2>7. \A k \in DOMAIN documents' : documents'[k] = DocumentsAt(k)'
    BY <2>1, <2>2, <2>5, <2>6
  <2>8. n + 1 \in 0..Len(times)
    BY <1>2, <2>1
  <2> QED
    BY <1>2, <2>6, <2>7, <2>8 DEF SelectionInv, DocumentsAt
<1>3. ASSUME Selection!Observe PROVE SelectionInv'
  BY <1>1, <1>2, <1>3 DEF Selection!Observe
<1>4. ASSUME Selection!Save PROVE SelectionInv'
  BY <1>1, <1>4 DEF Selection!Save
<1>5. ASSUME UNCHANGED Selection!vars PROVE SelectionInv'
  BY <1>1, <1>5 DEF Selection!vars
<1> QED
  BY <1>3, <1>4, <1>5 DEF Selection!Next

LEMMA GroupsAreTyped ==
  ASSUME SelectionInv
  PROVE  /\ Len(history) \in Nat /\ DOMAIN history = 1..Len(history)
         /\ \A i \in 1..Len(history) : history[i] \in Elements
         /\ \A sat : Selection!Group(sat) \in SUBSET (1..Len(history))
         /\ \A sat \in Selection!Sats : Selection!Group(sat) # {}
<1>1. history \in Seq(Elements)
  BY DEF SelectionInv
<1>2. Len(history) \in Nat /\ DOMAIN history = 1..Len(history)
  BY <1>1
<1>3. \A i \in 1..Len(history) : history[i] \in Elements
  <2> DEFINE E == Elements
  <2> HIDE DEF E
  <2>1. history \in Seq(E)
    BY <1>1 DEF E
  <2>2. \A i \in DOMAIN history : history[i] \in E
    BY <2>1
  <2> QED
    BY <1>2, <2>2 DEF E
<1> QED
  BY <1>2, <1>3 DEF Selection!Group, Selection!Sats

\* A document is that of its satellite and its time.
LEMMA DocumentsAreTyped ==
  ASSUME SelectionInv, NEW d \in Selection!All
  PROVE  /\ d.t \in Int /\ d.sat \in Selection!Sats
         /\ mode # "retrospective" =>
              d.causal = Selection!Causal(history, Selection!Group(d.sat), d.t)
         /\ mode = "retrospective" => d.causal = None
         /\ mode # "causal" =>
              d.retrospective = Selection!Retrospective(history, Selection!Group(d.sat), d.t)
         /\ mode = "causal" => d.retrospective = None
         /\ d.bracket = Selection!Bracket(history, Selection!Group(d.sat), d.t)
<1>1. PICK k \in DOMAIN documents, sat \in Selection!Sats : d = documents[k][sat]
  BY DEF Selection!All
<1>2. d = Selection!Document(sat, times[k])
  BY <1>1 DEF SelectionInv
<1>3. times[k] \in Int
  <2>1. times \in Seq(Int) /\ Len(documents) \in 0..Len(times) /\ k \in 1..Len(documents)
    BY DEF SelectionInv
  <2> QED
    BY <2>1
<1>4. /\ d.sat = sat /\ d.t = times[k]
      /\ d.causal = IF mode = "retrospective" THEN None ELSE Selection!Causal(history, Selection!Group(sat), times[k])
      /\ d.retrospective = IF mode = "causal" THEN None
                           ELSE Selection!Retrospective(history, Selection!Group(sat), times[k])
      /\ d.bracket = Selection!Bracket(history, Selection!Group(sat), times[k])
  BY <1>2 DEF Selection!Document
<1> QED
  BY <1>3, <1>4

LEMMA AdvancesCausally == SelectionInv => Selection!CausalAdvances
<1> SUFFICES ASSUME SelectionInv, NEW d \in Selection!All, NEW e \in Selection!All,
                    d.sat = e.sat, d.t <= e.t, d.causal # None
             PROVE  e.causal # None /\ history[e.causal].created >= history[d.causal].created
  BY DEF Selection!CausalAdvances
<1> USE NoneAssumption DEF NoneAssumption
<1> DEFINE S == Selection!Group(d.sat)
           n == Len(history)
           Before == Selection!Eligible(history, S, d.t)
           Now == Selection!Eligible(history, S, e.t)
<1>1. /\ d.t \in Int /\ e.t \in Int
      /\ d.causal = Selection!Causal(history, S, d.t)
      /\ e.causal = Selection!Causal(history, S, e.t)
  BY DocumentsAreTyped
<1>2. n \in Nat /\ S \in SUBSET (1..n) /\ \A i \in S : history[i] \in Elements
  BY GroupsAreTyped
<1> HIDE DEF S, n
<1>3. d.causal \in Before
  BY <1>1, <1>2, CausalIsGreatest
<1>4. Before \subseteq Now
  <2>1. ASSUME NEW i \in Before PROVE i \in Now
    <3>1. i \in S /\ history[i].created # None /\ history[i].created <= d.t - lag
      BY DEF Selection!Eligible
    <3>2. history[i].created \in Int /\ lag \in Int
      BY <1>1, <1>2, <3>1, RecordsAreTyped DEF SelectionInv
    <3>3. history[i].created <= e.t - lag
      BY <1>1, <3>1, <3>2
    <3> QED
      BY <3>1, <3>3 DEF Selection!Eligible
  <2> QED
    BY <2>1
<1>5. Now # {} /\ d.causal \in Now
  BY <1>3, <1>4
<1>6. /\ e.causal \in Now
      /\ ~ Selection!Less(CausalKey(history, e.t, e.causal), CausalKey(history, e.t, d.causal))
  BY <1>1, <1>2, <1>5, CausalIsGreatest
<1>7. \A i \in Now : i \in S /\ i \in Nat /\ i \in Int /\ history[i] \in Elements /\ history[i].created # None
  <2>1. \A i \in Now : i \in S /\ history[i].created # None
    BY DEF Selection!Eligible
  <2>2. \A i \in S : i \in Nat /\ i \in Int
    BY <1>2
  <2> HIDE DEF Now
  <2> QED
    BY <1>2, <2>1, <2>2
<1> HIDE DEF Before, Now
<1>8. \A i \in Now : /\ CausalKey(history, e.t, i) \in Keys(4)
                     /\ CausalKey(history, e.t, i)[1] = history[i].created
                     /\ history[i].created \in Int
  BY <1>1, <1>7, CausalKeyIs, RecordsAreTyped
<1>9. CausalKey(history, e.t, d.causal)[1] <= CausalKey(history, e.t, e.causal)[1]
  <2>1. 4 \in Nat \ {0}
    OBVIOUS
  <2> QED
    BY <1>5, <1>6, <1>8, <2>1, NotLess
<1> QED
  BY <1>5, <1>6, <1>7, <1>8, <1>9

LEMMA BracketsHold == SelectionInv => Selection!NearestIsABracket
<1> SUFFICES ASSUME SelectionInv, NEW d \in Selection!All, d.retrospective # None
             PROVE  LET r == history[d.retrospective] IN
                    /\ d.causal # None =>
                         Selection!Distance(r, d.t) <= Selection!Distance(history[d.causal], d.t)
                    /\ r.epoch \in {history[i].epoch : i \in {d.bracket.before, d.bracket.after} \ {None}}
  BY DEF Selection!NearestIsABracket
<1> USE NoneAssumption DEF NoneAssumption
<1> DEFINE S == Selection!Group(d.sat)
           n == Len(history)
           t == d.t
           p == d.retrospective
           b == d.bracket
           Before == {i \in S : history[i].epoch <= t}
           After  == {i \in S : history[i].epoch >= t}
<1>1. /\ t \in Int /\ d.sat \in Selection!Sats
      /\ p = Selection!Retrospective(history, S, t)
      /\ b = Selection!Bracket(history, S, t)
      /\ d.causal # None => d.causal = Selection!Causal(history, S, t)
  BY DocumentsAreTyped
<1>2. n \in Nat /\ S \in SUBSET (1..n) /\ S # {} /\ \A i \in S : history[i] \in Elements
  BY <1>1, GroupsAreTyped
<1>3. \A i \in S : i \in Int
  BY <1>2
<1> HIDE DEF S, n, t, p, b
<1>4. p \in S /\ \A j \in S : Selection!Distance(history[p], t) <= Selection!Distance(history[j], t)
  BY <1>1, <1>2, RetrospectiveIsNearest
<1>5. d.causal # None => d.causal \in S
  <2>1. d.causal # None => d.causal \in Selection!Eligible(history, S, t)
    BY <1>1, <1>2, CausalIsGreatest
  <2> QED
    BY <2>1 DEF Selection!Eligible
<1>6. \A i \in S : /\ history[i].epoch \in Int /\ Selection!Distance(history[i], t) \in Int
                   /\ history[i].epoch <= t => Selection!Distance(history[i], t) = t - history[i].epoch
                   /\ history[i].epoch >= t => Selection!Distance(history[i], t) = history[i].epoch - t
  BY <1>1, <1>2, RecordsAreTyped
<1>7. /\ Before # {} => b.before \in Before /\ \A j \in Before : history[j].epoch <= history[b.before].epoch
      /\ After # {} => b.after \in After /\ \A j \in After : history[b.after].epoch <= history[j].epoch
  BY <1>1, <1>2, BracketEnds
<1>8. \E i \in {b.before, b.after} \ {None} : history[p].epoch = history[i].epoch
  <2>1. CASE history[p].epoch <= t
    <3>1. p \in Before
      BY <1>4, <2>1
    <3>2. b.before \in S /\ history[b.before].epoch <= t /\ history[p].epoch <= history[b.before].epoch
      BY <1>7, <3>1
    <3>3. Selection!Distance(history[p], t) <= Selection!Distance(history[b.before], t)
      BY <1>4, <3>2
    <3>4. history[p].epoch = history[b.before].epoch
      BY <1>1, <1>4, <1>6, <2>1, <3>2, <3>3
    <3> QED
      BY <1>3, <3>2, <3>4
  <2>2. CASE ~ (history[p].epoch <= t)
    <3>1. history[p].epoch >= t
      BY <1>1, <1>4, <1>6, <2>2
    <3>2. p \in After
      BY <1>4, <3>1
    <3>3. b.after \in S /\ history[b.after].epoch >= t /\ history[b.after].epoch <= history[p].epoch
      BY <1>7, <3>2
    <3>4. Selection!Distance(history[p], t) <= Selection!Distance(history[b.after], t)
      BY <1>4, <3>3
    <3>5. history[p].epoch = history[b.after].epoch
      BY <1>1, <1>4, <1>6, <3>1, <3>3, <3>4
    <3> QED
      BY <1>3, <3>3, <3>5
  <2> QED
    BY <2>1, <2>2
<1> QED
  BY <1>4, <1>5, <1>8 DEF p, b, t

\* Two orders of records that their keys tell apart agree, whatever their places.
LEMMA PlacesDoNotDecide ==
  ASSUME NEW a \in Keys(4), NEW b \in Keys(4), NEW x \in Keys(4), NEW y \in Keys(4),
         x[1] = a[1], x[2] = a[2], x[3] = a[3], y[1] = b[1], y[2] = b[2], y[3] = b[3],
         a[1] # b[1] \/ a[2] # b[2] \/ a[3] # b[3]
  PROVE  Selection!Less(a, b) \/ Selection!Less(y, x)
<1>1. a[1] \in Int /\ a[2] \in Int /\ a[3] \in Int /\ b[1] \in Int /\ b[2] \in Int /\ b[3] \in Int
  BY DEF Keys
<1>2. \/ a[1] < b[1] \/ b[1] < a[1]
      \/ a[1] = b[1] /\ (a[2] < b[2] \/ b[2] < a[2])
      \/ a[1] = b[1] /\ a[2] = b[2] /\ (a[3] < b[3] \/ b[3] < a[3])
  BY <1>1
<1> QED
  BY <1>2, LessOfFour

LEMMA OnlineHolds == SelectionInv => Selection!OnlineView
<1> SUFFICES ASSUME SelectionInv, NEW d \in Selection!All, mode # "retrospective",
                    Selection!Distinguished(
                      {i \in Selection!Group(d.sat) :
                         history[i].created # None /\ history[i].created + lag <= d.t}, d.t),
                    NEW order \in Selection!Arranged(
                      {i \in Selection!Group(d.sat) :
                         history[i].created # None /\ history[i].created + lag <= d.t})
             PROVE  LET known == [k \in DOMAIN order |-> history[order[k]]]
                        own == Selection!Causal(known, DOMAIN known, d.t)
                    IN  d.causal = IF own = None THEN None ELSE order[own]
  BY DEF Selection!OnlineView
<1> USE NoneAssumption DEF NoneAssumption
<1> DEFINE S == Selection!Group(d.sat)
           n == Len(history)
           t == d.t
           P == {i \in S : history[i].created # None /\ history[i].created + lag <= t}
           N == Cardinality(P)
           known == [k \in DOMAIN order |-> history[order[k]]]
           own == Selection!Causal(known, DOMAIN known, t)
           c == d.causal
<1>1. t \in Int /\ c = Selection!Causal(history, S, t)
  BY DocumentsAreTyped
<1>2. n \in Nat /\ S \in SUBSET (1..n) /\ \A i \in S : history[i] \in Elements
  BY GroupsAreTyped
<1>3. Selection!Distinguished(P, t) /\ order \in Selection!Arranged(P)
  OBVIOUS
<1> HIDE DEF S, n, t, c
<1>4. lag \in Int /\ \A i \in S : history[i].created # None => history[i].created \in Int
  BY <1>1, <1>2, RecordsAreTyped DEF SelectionInv
<1>5. P = Selection!Eligible(history, S, t)
  BY <1>1, <1>4 DEF Selection!Eligible
<1>6. /\ P \in SUBSET (1..n)
      /\ \A i \in P : i \in Nat /\ history[i] \in Elements /\ history[i].created # None
                      /\ history[i].created + lag <= t /\ history[i].created \in Int
  <2>1. \A i \in P : i \in S /\ history[i].created # None /\ history[i].created + lag <= t
    OBVIOUS
  <2>2. \A i \in S : i \in 1..n /\ i \in Nat
    BY <1>2
  <2> HIDE DEF P
  <2> QED
    BY <1>2, <1>4, <2>1, <2>2
<1> HIDE DEF P
<1>7. IsFiniteSet(P) /\ N \in Nat
  <2>1. 1 \in Int /\ n \in Int
    BY <1>2
  <2> QED
    BY <1>6, <2>1, FS_Interval, FS_Subset, FS_CardinalityType
<1> HIDE DEF N
<1>8. /\ order \in [1..N -> P] /\ DOMAIN order = 1..N
      /\ \A i, j \in 1..N : i # j => order[i] # order[j]
  <2> DEFINE A == Selection!Arranged(P)
  <2>1. Selection!Cardinality(P) = Cardinality(P)
    BY DEF Selection!Cardinality, Cardinality, Selection!IsFiniteSet, IsFiniteSet
  <2>2. \A h \in A : /\ h \in [1..Selection!Cardinality(P) -> P]
                     /\ \A i, j \in DOMAIN h : i # j => h[i] # h[j]
    BY DEF Selection!Arranged
  <2>3. /\ order \in [1..Cardinality(P) -> P]
        /\ \A i, j \in DOMAIN order : i # j => order[i] # order[j]
    BY <1>3, <2>1, <2>2
  <2> QED
    BY <2>3 DEF N
<1>9. /\ DOMAIN known = 1..N
      /\ \A k \in 1..N : known[k] = history[order[k]] /\ order[k] \in P
  BY <1>8
<1> HIDE DEF known
<1>10. \A k \in 1..N : k \in Nat /\ known[k] \in Elements /\ known[k].created # None
                       /\ known[k].created <= t - lag
  <2> SUFFICES ASSUME NEW k \in 1..N
               PROVE  /\ k \in Nat /\ known[k] \in Elements /\ known[k].created # None
                      /\ known[k].created <= t - lag
    OBVIOUS
  <2> DEFINE r == history[order[k]]
  <2>1. known[k] = r /\ k \in Nat
    BY <1>7, <1>9
  <2>2. r \in Elements /\ r.created # None /\ r.created + lag <= t /\ r.created \in Int
    BY <1>6, <1>9
  <2> HIDE DEF r
  <2>3. r.created <= t - lag
    BY <1>1, <1>4, <2>2
  <2> QED
    BY <2>1, <2>2, <2>3
<1>11. Selection!Eligible(known, 1..N, t) = 1..N
  BY <1>10 DEF Selection!Eligible
<1>12. own = Selection!Causal(known, 1..N, t)
  BY <1>9
<1> HIDE DEF own
<1>13. CASE P = {}
  <2>1. c = None
    BY <1>1, <1>2, <1>5, <1>13, CausalIsGreatest
  <2>2. 1..N = {}
    BY <1>9, <1>13
  <2>3. own = None
    BY <1>1, <1>7, <1>10, <1>11, <1>12, <2>2, CausalIsGreatest
  <2> QED
    BY <2>1, <2>3 DEF own, known, c, t
<1>14. CASE P # {}
  <2>1. /\ c \in P
        /\ \A j \in P : ~ Selection!Less(CausalKey(history, t, c), CausalKey(history, t, j))
    BY <1>1, <1>2, <1>5, <1>14, CausalIsGreatest
  <2>2. \A i \in P : \E k \in 1..N : order[k] = i
    <3>1. order \in Injection(1..N, P)
      BY <1>8 DEF Injection, IsInjective
    <3>2. IsFiniteSet(1..N) /\ Cardinality(1..N) = N
      <4>1. 1 \in Int /\ N \in Int /\ (IF 1 > N THEN 0 ELSE N - 1 + 1) = N
        BY <1>7
      <4> QED
        BY <4>1, FS_Interval
    <3>3. order \in Surjection(1..N, P)
      BY <1>7, <3>1, <3>2, FS_Injection DEF N
    <3> QED
      BY <3>3 DEF Surjection
  <2>3. PICK z \in 1..N : order[z] = c
    BY <2>1, <2>2
  <2>4. 1..N # {} /\ 1..N \in SUBSET (1..N)
    BY <2>3
  <2>5. /\ own \in 1..N
        /\ \A j \in 1..N : ~ Selection!Less(CausalKey(known, t, own), CausalKey(known, t, j))
    BY <1>1, <1>7, <1>10, <1>11, <1>12, <2>4, CausalIsGreatest
  <2>6. order[own] = c
    <3> SUFFICES ASSUME order[own] # c PROVE FALSE
      OBVIOUS
    <3> DEFINE i == order[own]
               x == CausalKey(known, t, own)
               y == CausalKey(known, t, z)
               a == CausalKey(history, t, i)
               b == CausalKey(history, t, c)
    <3>1. i \in P /\ i # c /\ known[own] = history[i] /\ known[z] = history[c]
      BY <1>9, <2>3, <2>5
    <3> HIDE DEF i
    <3>2. /\ x \in Keys(4) /\ x[1] = history[i].created /\ x[2] = -Selection!Distance(history[i], t)
          /\ x[3] = Selection!IdOf(history[i])
      BY <1>1, <1>10, <2>5, <3>1, CausalKeyIs
    <3>3. /\ y \in Keys(4) /\ y[1] = history[c].created /\ y[2] = -Selection!Distance(history[c], t)
          /\ y[3] = Selection!IdOf(history[c])
      BY <1>1, <1>10, <2>3, <3>1, CausalKeyIs
    <3>4. /\ a \in Keys(4) /\ a[1] = history[i].created /\ a[2] = -Selection!Distance(history[i], t)
          /\ a[3] = Selection!IdOf(history[i])
      BY <1>1, <1>6, <3>1, CausalKeyIs
    <3>5. /\ b \in Keys(4) /\ b[1] = history[c].created /\ b[2] = -Selection!Distance(history[c], t)
          /\ b[3] = Selection!IdOf(history[c])
      BY <1>1, <1>6, <2>1, CausalKeyIs
    <3>6. \/ history[i].created # history[c].created
          \/ Selection!Distance(history[i], t) # Selection!Distance(history[c], t)
          \/ Selection!IdOf(history[i]) # Selection!IdOf(history[c])
      BY <1>3, <2>1, <3>1 DEF Selection!Distinguished
    <3>7. Selection!Distance(history[i], t) \in Int /\ Selection!Distance(history[c], t) \in Int
      BY <1>1, <1>6, <2>1, <3>1, RecordsAreTyped
    <3>8. ~ Selection!Less(x, y) /\ ~ Selection!Less(b, a)
      BY <2>1, <2>3, <2>5, <3>1
    <3> HIDE DEF x, y, a, b
    <3>9. a[1] # b[1] \/ a[2] # b[2] \/ a[3] # b[3]
      BY <3>4, <3>5, <3>6, <3>7
    <3>10. Selection!Less(a, b) \/ Selection!Less(y, x)
      BY <3>2, <3>3, <3>4, <3>5, <3>9, PlacesDoNotDecide
    <3>11. x[1] # y[1] \/ x[2] # y[2] \/ x[3] # y[3]
      BY <3>2, <3>3, <3>4, <3>5, <3>9
    <3>12. Selection!Less(x, y) \/ Selection!Less(b, a)
      BY <3>2, <3>3, <3>4, <3>5, <3>11, PlacesDoNotDecide
    <3> QED
      BY <3>8, <3>12
  <2>7. own # None
    BY <1>7, <2>5
  <2> QED
    BY <2>6, <2>7 DEF own, known, c, t
<1> QED
  BY <1>13, <1>14

\* For every history, lag and grid of times: the causal element never goes back
\* to an older one and is the one an online controller selects, whatever the
\* order its records are stored in, and the retrospective one is a neighbour of
\* the time (_select_causal, _select_retrospective, _bracketing_sensitivity).
THEOREM SelectionIsSound == Spec => []SelectionSound
<1>1. Init => SelectionInv
  BY SelectionInit
<1>2. SelectionInv /\ [Next]_vars => SelectionInv'
  BY NextParts, SelectionNext
<1>3. SelectionInv => SelectionSound
  BY AdvancesCausally, BracketsHold, OnlineHolds DEF SelectionSound
<1> QED
  BY <1>1, <1>2, <1>3, PTL DEF Spec

-----------------------------------------------------------------------------
(* The bins and the pairs of two series.                                    *)

SeriesPoints == [t : Nat, v : Int]
SeriesBins == [t : Int, sum : Int, n : Nat]
Sides == {"measured", "replay"}

Passed(s, edge) == {k \in DOMAIN Comparison!Points(s) : Comparison!Points(s)[k].t < edge}
Values(s) == [k \in DOMAIN Comparison!Points(s) |-> Comparison!Points(s)[k].v]
Numbers(s) == [k \in DOMAIN bins[s] |-> bins[s][k].n]
Totals(s) == [k \in DOMAIN bins[s] |-> bins[s][k].sum]

\* The bins of a series hold these of its points.
Hold(s, K) ==
  /\ SumFunctionOnSet(Numbers(s), DOMAIN bins[s]) = Cardinality(K)
  /\ SumFunctionOnSet(Totals(s), DOMAIN bins[s]) = SumFunctionOnSet(Values(s), K)

\* The bins are in the order of their times and hold, of the series that is being
\* read, the points before the edge, and of the one that was read, all of them.
AveragesInv ==
  /\ original \in Seq(SeriesPoints) /\ replay \in Seq(SeriesPoints)
  /\ bins \in [Sides -> Seq(SeriesBins)] /\ left \in Nat
  /\ pc \in {"measured", "replay", "align", "compared"}
  /\ \A s \in Sides : \A a, b \in DOMAIN bins[s] : a < b => bins[s][a].t < bins[s][b].t
  /\ pc \in Sides => \A a \in DOMAIN bins[pc] : bins[pc][a].t < left + (BinSize \div 2)
  /\ pc = "measured" => Hold("measured", Passed("measured", left)) /\ bins["replay"] = <<>>
  /\ pc = "replay" => Hold("measured", DOMAIN original) /\ Hold("replay", Passed("replay", left))
  /\ pc \in {"align", "compared"} => Hold("measured", DOMAIN original) /\ Hold("replay", DOMAIN replay)

LEMMA EmptyHolds ==
  ASSUME NEW s \in Sides, bins[s] = <<>>, \A k \in DOMAIN Comparison!Points(s) : Comparison!Points(s)[k].t \in Nat
  PROVE  Hold(s, Passed(s, 0))
<1>1. DOMAIN bins[s] = {}
  OBVIOUS
<1>2. Passed(s, 0) = {}
  BY DEF Passed
<1> QED
  BY <1>1, <1>2, SumEmpty, FS_EmptySet DEF Hold

LEMMA AveragesInit == Init => AveragesInv
<1> SUFFICES ASSUME Init PROVE AveragesInv
  OBVIOUS
<1>1. /\ original \in Seq(SeriesPoints) /\ replay \in Seq(SeriesPoints) /\ pc = "measured" /\ left = 0
      /\ bins = [s \in Sides |-> <<>>]
  <2>1. Comparison!Init \/ ComparisonRests
    BY DEF Init
  <2>2. CASE Comparison!Init
    <3>1. original \in Series /\ replay \in Series
      BY <2>2 DEF Comparison!Init
    <3>2. original \in Seq(SeriesPoints) /\ replay \in Seq(SeriesPoints)
      BY <3>1, SeriesAssumption DEF SeriesAssumption, SeriesPoints
    <3> QED
      BY <2>2, <3>2 DEF Comparison!Init, Sides
  <2>3. CASE ComparisonRests
    <3>1. <<>> \in Seq(SeriesPoints)
      OBVIOUS
    <3> QED
      BY <2>3, <3>1 DEF ComparisonRests, Sides
  <2> QED
    BY <2>1, <2>2, <2>3
<1>2. Comparison!Points("measured") = original
  BY DEF Comparison!Points
<1>3. \A k \in DOMAIN original : original[k].t \in Nat
  <2>1. \A k \in DOMAIN original : original[k] \in SeriesPoints
    BY <1>1
  <2> QED
    BY <2>1 DEF SeriesPoints
<1>4. Hold("measured", Passed("measured", left))
  BY <1>1, <1>2, <1>3, EmptyHolds DEF Sides
<1>5. \A s \in Sides : bins[s] = <<>> /\ bins[s] \in Seq(SeriesBins)
  BY <1>1
<1>6. \A s \in Sides : \A a, b \in DOMAIN bins[s] : a < b => bins[s][a].t < bins[s][b].t
  BY <1>5
<1>7. \A a \in DOMAIN bins["measured"] : bins["measured"][a].t < left + (BinSize \div 2)
  BY <1>5 DEF Sides
<1>8. bins \in [Sides -> Seq(SeriesBins)] /\ left \in Nat
  BY <1>1
<1> QED
  BY <1>1, <1>4, <1>5, <1>6, <1>7, <1>8 DEF AveragesInv, Sides

\* The points of one more bin.
LEMMA BinAdds ==
  ASSUME AveragesInv, pc \in Sides
  PROVE  LET K == Comparison!InBin(Comparison!Points(pc))
         IN  /\ IsFiniteSet(K) /\ IsFiniteSet(Passed(pc, left)) /\ K \cap Passed(pc, left) = {}
             /\ Passed(pc, left + BinSize) = Passed(pc, left) \cup K
             /\ K \subseteq DOMAIN Comparison!Points(pc)
             /\ Passed(pc, left) \subseteq DOMAIN Comparison!Points(pc)
             /\ \A k \in DOMAIN Comparison!Points(pc) : Values(pc)[k] \in Int
<1> DEFINE P == Comparison!Points(pc)
           K == Comparison!InBin(P)
<1>1. P \in Seq(SeriesPoints)
  BY DEF AveragesInv, Comparison!Points
<1>2. IsFiniteSet(DOMAIN P) /\ \A k \in DOMAIN P : P[k] \in SeriesPoints
  <2>1. DOMAIN P = 1..Len(P) /\ Len(P) \in Nat
    BY <1>1
  <2>2. IsFiniteSet(1..Len(P))
    BY <2>1, FS_Interval
  <2> QED
    BY <1>1, <2>1, <2>2
<1>3. BinSize \in Nat /\ BinSize > 0 /\ left \in Nat
  BY SeriesAssumption DEF SeriesAssumption, AveragesInv
<1>4. K = {k \in DOMAIN P : left <= P[k].t /\ P[k].t < left + BinSize}
  BY DEF Comparison!InBin
<1>5. Passed(pc, left) = {k \in DOMAIN P : P[k].t < left} /\ Passed(pc, left + BinSize) = {k \in DOMAIN P : P[k].t < left + BinSize}
  BY DEF Passed
<1>6. \A k \in DOMAIN P : P[k].t \in Nat /\ P[k].v \in Int
  BY <1>2 DEF SeriesPoints
<1>7. \A k \in DOMAIN P : Values(pc)[k] \in Int
  BY <1>6 DEF Values
<1> HIDE DEF P, K
<1>8. K \subseteq DOMAIN P /\ Passed(pc, left) \subseteq DOMAIN P
  BY <1>4, <1>5
<1>9. IsFiniteSet(K) /\ IsFiniteSet(Passed(pc, left))
  BY <1>2, <1>8, FS_Subset
<1>10. K \cap Passed(pc, left) = {} /\ Passed(pc, left + BinSize) = Passed(pc, left) \cup K
  BY <1>3, <1>4, <1>5, <1>6
<1> QED
  BY <1>7, <1>8, <1>9, <1>10 DEF P, K

LEMMA TotalIs ==
  ASSUME NEW f
  PROVE  Comparison!SumFunction(f) = SumFunctionOnSet(f, DOMAIN f)
BY DEF Comparison!SumFunction, Comparison!SumFunctionOnSet, Comparison!FoldFunctionOnSet, Comparison!MapThenFoldSet,
       SumFunctionOnSet, FoldFunctionOnSet, MapThenFoldSet

\* What a bin says of its points.
LEMMA BinIs ==
  ASSUME AveragesInv, pc \in Sides
  PROVE  LET P == Comparison!Points(pc)
             K == Comparison!InBin(P)
             bin == Comparison!BinOf(P, K)
         IN  /\ bin \in SeriesBins /\ bin.t = left + (BinSize \div 2)
             /\ bin.n = Cardinality(K) /\ bin.sum = SumFunctionOnSet(Values(pc), K)
<1> DEFINE P == Comparison!Points(pc)
           K == Comparison!InBin(P)
           f == [k \in K |-> P[k].v]
<1>1. /\ IsFiniteSet(K) /\ K \subseteq DOMAIN P /\ \A k \in DOMAIN P : Values(pc)[k] \in Int
  BY BinAdds
<1>2. \A k \in DOMAIN P : Values(pc)[k] = P[k].v
  BY DEF Values
<1> HIDE DEF P, K
<1>3. Comparison!BinOf(P, K) = [t |-> left + (BinSize \div 2), n |-> Cardinality(K), sum |-> Comparison!SumFunction(f)]
  <2>1. Comparison!Cardinality(K) = Cardinality(K)
    BY DEF Comparison!Cardinality, Cardinality, Comparison!IsFiniteSet, IsFiniteSet
  <2> QED
    BY <2>1 DEF Comparison!BinOf
<1>4. DOMAIN f = K /\ \A k \in K : f[k] = Values(pc)[k] /\ Values(pc)[k] \in Int
  BY <1>1, <1>2
<1> HIDE DEF f
<1>5. Comparison!SumFunction(f) = SumFunctionOnSet(f, K)
  BY <1>4, TotalIs
<1>6. SumFunctionOnSet(f, K) = SumFunctionOnSet(Values(pc), K)
  BY <1>1, <1>4, SumSame
<1>7. SumFunctionOnSet(Values(pc), K) \in Int /\ Cardinality(K) \in Nat
  BY <1>1, <1>4, SumInt, FS_CardinalityType
<1>8. left + (BinSize \div 2) \in Int
  BY SeriesAssumption DEF SeriesAssumption, AveragesInv
<1> QED
  BY <1>3, <1>5, <1>6, <1>7, <1>8 DEF P, K, SeriesBins

\* A bin more, or none where there is no point.
LEMMA AggregateHolds ==
  ASSUME AveragesInv, pc \in Sides, NEW next, Comparison!Aggregate(pc, next),
         Comparison!MoreBins(Comparison!Points(pc))
  PROVE  /\ bins' \in [Sides -> Seq(SeriesBins)] /\ left' \in Nat /\ left' = left + BinSize
         /\ \A s \in Sides : s # pc => bins'[s] = bins[s]
         /\ \A a, b \in DOMAIN bins'[pc] : a < b => bins'[pc][a].t < bins'[pc][b].t
         /\ \A a \in DOMAIN bins'[pc] : bins'[pc][a].t < left' + (BinSize \div 2)
         /\ Hold(pc, Passed(pc, left)) => Hold(pc, Passed(pc, left))' 
<1> DEFINE P == Comparison!Points(pc)
           K == Comparison!InBin(P)
           bin == Comparison!BinOf(P, K)
           n == Len(bins[pc])
<1>1. /\ left' = left + BinSize /\ UNCHANGED <<pc, original, replay>>
      /\ bins' = IF K = {} THEN bins ELSE [bins EXCEPT ![pc] = Append(@, bin)]
  BY DEF Comparison!Aggregate
<1>2. /\ bin \in SeriesBins /\ bin.t = left + (BinSize \div 2)
      /\ bin.n = Cardinality(K) /\ bin.sum = SumFunctionOnSet(Values(pc), K)
  BY BinIs
<1>3. BinSize \in Nat /\ BinSize > 0 /\ left \in Nat
  BY SeriesAssumption DEF SeriesAssumption, AveragesInv
<1>4. /\ bins \in [Sides -> Seq(SeriesBins)]
      /\ \A a, b \in DOMAIN bins[pc] : a < b => bins[pc][a].t < bins[pc][b].t
      /\ \A a \in DOMAIN bins[pc] : bins[pc][a].t < left + (BinSize \div 2)
  BY DEF AveragesInv
<1>5. /\ IsFiniteSet(K) /\ IsFiniteSet(Passed(pc, left)) /\ K \cap Passed(pc, left) = {}
      /\ Passed(pc, left + BinSize) = Passed(pc, left) \cup K
      /\ \A k \in Passed(pc, left) \cup K : Values(pc)[k] \in Int
  BY BinAdds
<1>6. Passed(pc, left)' = Passed(pc, left + BinSize) /\ Values(pc)' = Values(pc)
  BY <1>1 DEF Passed, Values, Comparison!Points
<1>7. bins[pc] \in Seq(SeriesBins) /\ n \in Nat /\ DOMAIN bins[pc] = 1..n
  BY <1>4
<1>8. \A k \in 1..n : bins[pc][k] \in SeriesBins
  BY <1>7
<1> HIDE DEF P, K, bin
<1>9. CASE K = {}
  <2>1. bins' = bins /\ Passed(pc, left + BinSize) = Passed(pc, left)
    BY <1>1, <1>5, <1>9
  <2>2. \A a \in DOMAIN bins'[pc] : bins'[pc][a].t < left' + (BinSize \div 2)
    <3> SUFFICES ASSUME NEW a \in 1..n PROVE bins[pc][a].t < left' + (BinSize \div 2)
      BY <1>7, <2>1
    <3>1. bins[pc][a].t \in Int /\ bins[pc][a].t < left + (BinSize \div 2)
      BY <1>4, <1>7, <1>8 DEF SeriesBins
    <3> QED
      BY <1>1, <1>3, <3>1
  <2>3. Hold(pc, Passed(pc, left)) => Hold(pc, Passed(pc, left))'
    BY <1>1, <1>6, <2>1 DEF Hold, Numbers, Totals
  <2>4. left' \in Nat /\ left' = left + BinSize
    BY <1>1, <1>3
  <2>5. /\ bins' \in [Sides -> Seq(SeriesBins)] /\ \A s \in Sides : s # pc => bins'[s] = bins[s]
        /\ \A a, b \in DOMAIN bins'[pc] : a < b => bins'[pc][a].t < bins'[pc][b].t
    BY <1>4, <2>1
  <2> QED
    BY <2>2, <2>3, <2>4, <2>5
<1>10. CASE K # {}
  <2>1. /\ bins' = [bins EXCEPT ![pc] = Append(@, bin)]
        /\ bins'[pc] = Append(bins[pc], bin)
    BY <1>1, <1>4, <1>10
  <2>2. /\ bins'[pc] \in Seq(SeriesBins) /\ DOMAIN bins'[pc] = 1..(n + 1)
        /\ bins'[pc][n + 1] = bin /\ \A k \in 1..n : bins'[pc][k] = bins[pc][k]
    BY <1>2, <1>7, <2>1
  <2>3. bins' \in [Sides -> Seq(SeriesBins)] /\ \A s \in Sides : s # pc => bins'[s] = bins[s]
    BY <1>2, <1>4, <1>7, <2>1, <2>2
  <2> HIDE DEF n
  <2>4. \A a, b \in DOMAIN bins'[pc] : a < b => bins'[pc][a].t < bins'[pc][b].t
    <3> SUFFICES ASSUME NEW a \in 1..(n + 1), NEW b \in 1..(n + 1), a < b
                 PROVE  bins'[pc][a].t < bins'[pc][b].t
      BY <2>2
    <3>1. a \in 1..n
      BY <1>7
    <3>2. CASE b \in 1..n
      BY <1>4, <1>7, <2>2, <3>1, <3>2
    <3>3. CASE b \notin 1..n
      <4>1. b = n + 1
        BY <1>7, <3>3
      <4> QED
        BY <1>2, <1>4, <1>7, <2>2, <3>1, <4>1
    <3> QED
      BY <3>2, <3>3
  <2>5. \A a \in DOMAIN bins'[pc] : bins'[pc][a].t < left' + (BinSize \div 2)
    <3> SUFFICES ASSUME NEW a \in 1..(n + 1) PROVE bins'[pc][a].t < left' + (BinSize \div 2)
      BY <2>2
    <3>1. CASE a \in 1..n
      <4>1. bins[pc][a].t \in Int /\ bins[pc][a].t < left + (BinSize \div 2)
        BY <1>4, <1>7, <1>8, <3>1 DEF SeriesBins
      <4>2. bins'[pc][a] = bins[pc][a]
        BY <2>2, <3>1
      <4> DEFINE half == BinSize \div 2
      <4>3. half \in Int
        BY <1>3
      <4> HIDE DEF half
      <4>4. bins[pc][a].t < left + half
        BY <4>1 DEF half
      <4>5. bins[pc][a].t < left' + half
        BY <1>1, <1>3, <4>1, <4>3, <4>4
      <4> QED
        BY <4>2, <4>5 DEF half
    <3>2. CASE a \notin 1..n
      <4>1. a = n + 1
        BY <1>7, <3>2
      <4>2. bins'[pc][a].t = left + (BinSize \div 2)
        BY <1>2, <2>2, <4>1
      <4> DEFINE half == BinSize \div 2
      <4>3. half \in Int
        BY <1>3
      <4> HIDE DEF half
      <4>4. left + half < left' + half
        BY <1>1, <1>3, <4>3
      <4> QED
        BY <4>2, <4>4 DEF half
    <3> QED
      BY <3>1, <3>2
  <2>6. ASSUME Hold(pc, Passed(pc, left)) PROVE Hold(pc, Passed(pc, left))'
    <3> DEFINE f == Numbers(pc)
               g == Totals(pc)
               S == 1..n
               z == n + 1
    <3>1. /\ \A k \in S : f[k] \in Int /\ g[k] \in Int
          /\ \A k \in S : f'[k] = f[k] /\ g'[k] = g[k]
          /\ f'[z] = Cardinality(K) /\ g'[z] = SumFunctionOnSet(Values(pc), K)
      <4>1. \A k \in S : k \in 1..(n + 1) /\ z \in 1..(n + 1)
        BY <1>7
      <4>2. \A k \in S : f[k] = bins[pc][k].n /\ g[k] = bins[pc][k].sum
        BY <1>7 DEF Numbers, Totals
      <4>3. \A k \in 1..(n + 1) : f'[k] = bins'[pc][k].n /\ g'[k] = bins'[pc][k].sum
        BY <1>1, <2>2 DEF Numbers, Totals
      <4>4. \A k \in S : bins[pc][k].n \in Int /\ bins[pc][k].sum \in Int
        BY <1>8 DEF SeriesBins
      <4> HIDE DEF f, g, S
      <4>5. \A k \in S : f[k] \in Int /\ g[k] \in Int
        BY <4>2, <4>4
      <4>6. \A k \in S : bins'[pc][k] = bins[pc][k]
        BY <2>2 DEF S
      <4>7. \A k \in S : f'[k] = f[k] /\ g'[k] = g[k]
        BY <4>1, <4>2, <4>3, <4>6
      <4>9. z \in 1..(n + 1)
        BY <1>7
      <4>10. f'[z] = bin.n /\ g'[z] = bin.sum
        BY <2>2, <4>3, <4>9
      <4> QED
        BY <1>2, <4>5, <4>7, <4>10
    <3>2. Cardinality(K) \in Int /\ SumFunctionOnSet(Values(pc), K) \in Int
      BY <1>5, SumInt, FS_CardinalityType
    <3>3. IsFiniteSet(S) /\ z \notin S /\ 1..(n + 1) = S \cup {z}
      BY <1>7, FS_Interval
    <3>4. /\ SumFunctionOnSet(f, S) = Cardinality(Passed(pc, left))
          /\ SumFunctionOnSet(g, S) = SumFunctionOnSet(Values(pc), Passed(pc, left))
      BY <1>7, <2>6 DEF Hold
    <3> HIDE DEF f, g, S, z
    <3>5. /\ SumFunctionOnSet(f', S \cup {z}) = SumFunctionOnSet(f', S) + f'[z]
          /\ SumFunctionOnSet(g', S \cup {z}) = SumFunctionOnSet(g', S) + g'[z]
      BY <3>1, <3>2, <3>3, SumAdd
    <3>6. SumFunctionOnSet(f', S) = SumFunctionOnSet(f, S) /\ SumFunctionOnSet(g', S) = SumFunctionOnSet(g, S)
      BY <3>1, <3>3, SumSame
    <3>7. Cardinality(Passed(pc, left) \cup K) = Cardinality(Passed(pc, left)) + Cardinality(K)
      <4>1. Passed(pc, left) \cap K = {} /\ Cardinality({}) = 0
        BY <1>5, FS_EmptySet
      <4>2. Cardinality(Passed(pc, left)) \in Nat /\ Cardinality(K) \in Nat
        BY <1>5, FS_CardinalityType
      <4>3. Cardinality(Passed(pc, left) \cup K)
              = Cardinality(Passed(pc, left)) + Cardinality(K) - Cardinality(Passed(pc, left) \cap K)
        BY <1>5, FS_Union
      <4>4. Cardinality(Passed(pc, left) \cap K) = 0
        BY <4>1, Zenon
      <4> QED
        BY <4>2, <4>3, <4>4
    <3>8. SumFunctionOnSet(Values(pc), Passed(pc, left) \cup K)
            = SumFunctionOnSet(Values(pc), Passed(pc, left)) + SumFunctionOnSet(Values(pc), K)
      BY <1>5, SumUnion
    <3>9. /\ SumFunctionOnSet(f', S \cup {z}) = Cardinality(Passed(pc, left))'
          /\ SumFunctionOnSet(g', S \cup {z}) = SumFunctionOnSet(Values(pc), Passed(pc, left))'
      BY <1>5, <1>6, <3>1, <3>4, <3>5, <3>6, <3>7, <3>8
    <3> QED
      BY <1>1, <2>2, <3>3, <3>9 DEF Hold, f, g
  <2>7. left' \in Nat /\ left' = left + BinSize
    BY <1>1, <1>3
  <2> QED
    BY <2>3, <2>4, <2>5, <2>6, <2>7
<1> QED
  BY <1>9, <1>10

\* When no point is left every point has passed.
LEMMA LastBinPassed ==
  ASSUME AveragesInv, pc \in Sides, ~ Comparison!MoreBins(Comparison!Points(pc))
  PROVE  Passed(pc, left) = DOMAIN Comparison!Points(pc)
<1> DEFINE P == Comparison!Points(pc)
<1>1. P \in Seq(SeriesPoints) /\ left \in Nat
  BY DEF AveragesInv, Comparison!Points
<1>2. \A k \in DOMAIN P : P[k] \in SeriesPoints
  BY <1>1
<1>3. \A k \in DOMAIN P : P[k].t \in Nat
  BY <1>2 DEF SeriesPoints
<1>4. \A k \in DOMAIN P : ~ (left <= P[k].t)
  BY DEF Comparison!MoreBins
<1> HIDE DEF P
<1>5. \A k \in DOMAIN P : P[k].t < left
  BY <1>1, <1>3, <1>4
<1> QED
  BY <1>5 DEF Passed, P


LEMMA FirstSide ==
  ASSUME AveragesInv, Comparison!Aggregate("measured", "replay")
  PROVE  AveragesInv'
<1>1. pc = "measured" /\ UNCHANGED <<original, replay>>
  BY DEF Comparison!Aggregate
<1>2. CASE Comparison!MoreBins(Comparison!Points(pc))
  <2>1. pc' = pc
    BY <1>1, <1>2 DEF Comparison!Aggregate
  <2>2. pc \in Sides /\ Comparison!Aggregate(pc, "replay")
    BY <1>1 DEF Sides
  <2>3. /\ bins' \in [Sides -> Seq(SeriesBins)] /\ left' \in Nat
        /\ \A s \in Sides : s # pc => bins'[s] = bins[s]
        /\ \A a, b \in DOMAIN bins'[pc] : a < b => bins'[pc][a].t < bins'[pc][b].t
        /\ \A a \in DOMAIN bins'[pc] : bins'[pc][a].t < left' + (BinSize \div 2)
        /\ Hold(pc, Passed(pc, left)) => Hold(pc, Passed(pc, left))'
    BY <1>2, <2>2, AggregateHolds
  <2>4. Hold("measured", Passed("measured", left))' /\ bins'["replay"] = <<>>
    BY <1>1, <2>1, <2>3 DEF AveragesInv, Sides
  <2>5. \A s \in Sides : \A a, b \in DOMAIN bins'[s] : a < b => bins'[s][a].t < bins'[s][b].t
    BY <1>1, <2>3 DEF AveragesInv, Sides
  <2> QED
    BY <1>1, <2>1, <2>3, <2>4, <2>5 DEF AveragesInv, Sides
<1>3. CASE ~ Comparison!MoreBins(Comparison!Points(pc))
  <2>1. pc' = "replay" /\ left' = 0 /\ bins' = bins
    BY <1>1, <1>3 DEF Comparison!Aggregate
  <2>2. Hold("measured", DOMAIN original)
    BY <1>1, <1>3, LastBinPassed DEF AveragesInv, Sides, Comparison!Points
  <2>3. Hold("replay", Passed("replay", 0))
    <3>1. replay \in Seq(SeriesPoints) /\ bins["replay"] = <<>> /\ Comparison!Points("replay") = replay
      BY <1>1 DEF AveragesInv, Comparison!Points
    <3>2. \A k \in DOMAIN replay : replay[k] \in SeriesPoints
      BY <3>1
    <3>3. \A k \in DOMAIN replay : replay[k].t \in Nat
      BY <3>2 DEF SeriesPoints
    <3> QED
      BY <3>1, <3>3, EmptyHolds DEF Sides
  <2>4. Hold("measured", DOMAIN original)'
    BY <1>1, <2>1, <2>2 DEF Hold, Numbers, Totals, Values, Comparison!Points
  <2>5. Hold("replay", Passed("replay", left))'
    BY <1>1, <2>1, <2>3 DEF Hold, Numbers, Totals, Values, Passed, Comparison!Points
  <2>6. bins'["replay"] = <<>>
    BY <1>1, <2>1 DEF AveragesInv
  <2> QED
    BY <1>1, <2>1, <2>4, <2>5, <2>6 DEF AveragesInv, Sides
<1> QED
  BY <1>2, <1>3

LEMMA SecondSide ==
  ASSUME AveragesInv, Comparison!Aggregate("replay", "align")
  PROVE  AveragesInv'
<1>1. pc = "replay" /\ UNCHANGED <<original, replay>>
  BY DEF Comparison!Aggregate
<1>2. CASE Comparison!MoreBins(Comparison!Points(pc))
  <2>1. pc' = pc
    BY <1>1, <1>2 DEF Comparison!Aggregate
  <2>2. pc \in Sides /\ Comparison!Aggregate(pc, "align")
    BY <1>1 DEF Sides
  <2>3. /\ bins' \in [Sides -> Seq(SeriesBins)] /\ left' \in Nat
        /\ \A s \in Sides : s # pc => bins'[s] = bins[s]
        /\ \A a, b \in DOMAIN bins'[pc] : a < b => bins'[pc][a].t < bins'[pc][b].t
        /\ \A a \in DOMAIN bins'[pc] : bins'[pc][a].t < left' + (BinSize \div 2)
        /\ Hold(pc, Passed(pc, left)) => Hold(pc, Passed(pc, left))'
    BY <1>2, <2>2, AggregateHolds
  <2>4. Hold("replay", Passed("replay", left))' /\ bins'["measured"] = bins["measured"]
    BY <1>1, <2>1, <2>3 DEF AveragesInv, Sides
  <2>5. \A s \in Sides : \A a, b \in DOMAIN bins'[s] : a < b => bins'[s][a].t < bins'[s][b].t
    BY <1>1, <2>3 DEF AveragesInv, Sides
  <2>6. Hold("measured", DOMAIN original)'
    BY <1>1, <2>4 DEF AveragesInv, Hold, Numbers, Totals, Values, Comparison!Points
  <2> QED
    BY <1>1, <2>1, <2>3, <2>4, <2>5, <2>6 DEF AveragesInv, Sides
<1>3. CASE ~ Comparison!MoreBins(Comparison!Points(pc))
  <2>1. pc' = "align" /\ left' = 0 /\ bins' = bins
    BY <1>1, <1>3 DEF Comparison!Aggregate
  <2>2. Hold("measured", DOMAIN original) /\ Hold("replay", DOMAIN replay)
    BY <1>1, <1>3, LastBinPassed DEF AveragesInv, Sides, Comparison!Points
  <2>3. Hold("measured", DOMAIN original)' /\ Hold("replay", DOMAIN replay)'
    BY <1>1, <2>1, <2>2 DEF Hold, Numbers, Totals, Values, Comparison!Points
  <2> QED
    BY <1>1, <2>1, <2>3 DEF AveragesInv, Sides
<1> QED
  BY <1>2, <1>3

LEMMA AveragesKeep ==
  ASSUME AveragesInv, UNCHANGED <<original, replay, bins, left>>,
         pc' = pc \/ (pc = "align" /\ pc' = "compared")
  PROVE  AveragesInv'
<1>1. CASE pc' = pc
  BY <1>1 DEF AveragesInv, Hold, Numbers, Totals, Values, Passed, Comparison!Points
<1>2. CASE pc = "align" /\ pc' = "compared"
  <2>1. Hold("measured", DOMAIN original)' /\ Hold("replay", DOMAIN replay)'
    BY <1>2 DEF AveragesInv, Hold, Numbers, Totals, Values, Comparison!Points
  <2> QED
    BY <1>2, <2>1 DEF AveragesInv, Sides
<1> QED
  BY <1>1, <1>2

LEMMA AveragesNext == AveragesInv /\ [Comparison!Next]_(Comparison!vars) => AveragesInv'
<1> SUFFICES ASSUME AveragesInv, [Comparison!Next]_(Comparison!vars) PROVE AveragesInv'
  OBVIOUS
<1>1. CASE Comparison!Aggregate("measured", "replay")
  BY <1>1, FirstSide
<1>2. CASE Comparison!Aggregate("replay", "align")
  BY <1>2, SecondSide
<1>3. CASE Comparison!Advance \/ Comparison!Pair \/ Comparison!Compare
  BY <1>3, AveragesKeep DEF Comparison!Advance, Comparison!Pair, Comparison!Compare
<1>4. CASE UNCHANGED Comparison!vars
  BY <1>4, AveragesKeep DEF Comparison!vars
<1> QED
  BY <1>1, <1>2, <1>3, <1>4 DEF Comparison!Next

LEMMA PointsCount == AveragesInv => Comparison!EveryPointCounts
<1> SUFFICES ASSUME AveragesInv, pc = "align", NEW s \in Sides
             PROVE  /\ Comparison!SumFunction([k \in DOMAIN bins[s] |-> bins[s][k].n]) = Len(Comparison!Points(s))
                    /\ Comparison!SumFunction([k \in DOMAIN bins[s] |-> bins[s][k].sum])
                         = Comparison!SumFunction([k \in DOMAIN Comparison!Points(s) |-> Comparison!Points(s)[k].v])
  BY DEF Comparison!EveryPointCounts, Sides
<1> DEFINE P == Comparison!Points(s)
<1>1. P \in Seq(SeriesPoints) /\ Hold(s, DOMAIN P)
  BY DEF AveragesInv, Comparison!Points, Sides
<1>2. Cardinality(DOMAIN P) = Len(P)
  <2>1. Len(P) \in Nat /\ DOMAIN P = 1..Len(P)
    BY <1>1
  <2> HIDE DEF P
  <2> DEFINE n == Len(P)
  <2>2. 1 \in Int /\ n \in Int /\ n \in Nat
    BY <2>1
  <2> HIDE DEF n
  <2>3. Cardinality(1..n) = n
    BY <2>2, FS_Interval
  <2> QED
    BY <2>1, <2>3 DEF n
<1>3. DOMAIN Values(s) = DOMAIN P /\ DOMAIN Numbers(s) = DOMAIN bins[s] /\ DOMAIN Totals(s) = DOMAIN bins[s]
  BY DEF Values, Numbers, Totals
<1>4. /\ Comparison!SumFunction(Numbers(s)) = Len(P)
      /\ Comparison!SumFunction(Totals(s)) = Comparison!SumFunction(Values(s))
  <2> HIDE DEF P
  <2> QED
    BY <1>1, <1>2, <1>3, TotalIs DEF Hold
<1> QED
  BY <1>4 DEF Values, Numbers, Totals

-----------------------------------------------------------------------------
(* The pointer.                                                             *)

NearestTo(a, b) == \A c \in DOMAIN Comparison!B : Comparison!Off(a, b) <= Comparison!Off(a, c)
InReach(a) == \E b \in DOMAIN Comparison!B : Comparison!Off(a, b) <= PairTolerance

\* No bin that the pointer has passed is nearer than the one it is at; what has
\* been placed is paired with a nearest bin wherever one is in reach.
PairsInv ==
  /\ place \in Nat /\ pointer \in Nat /\ 1 <= place /\ 1 <= pointer
  /\ pairs \in Seq([a : Nat, b : Nat])
  /\ pc \in Sides => place = 1 /\ pointer = 1 /\ pairs = <<>>
  /\ pc \in {"align", "compared"} =>
       /\ place <= Len(Comparison!A) + 1
       /\ Comparison!B # <<>> => pointer <= Len(Comparison!B)
       /\ Comparison!B # <<>> /\ place <= Len(Comparison!A) =>
            \A c \in 1..pointer : Comparison!Off(place, pointer) <= Comparison!Off(place, c)
       /\ \A k \in DOMAIN pairs : NearestTo(pairs[k].a, pairs[k].b)
       /\ {pairs[k].a : k \in DOMAIN pairs} = {a \in 1..(place - 1) : InReach(a)}
  /\ pc = "compared" => Comparison!B = <<>> \/ place > Len(Comparison!A)

\* Bins are in their order, and how far one is from another.
LEMMA BinsInOrder ==
  ASSUME AveragesInv
  PROVE  /\ Comparison!A \in Seq(SeriesBins) /\ Comparison!B \in Seq(SeriesBins)
         /\ \A a \in 1..Len(Comparison!A) : Comparison!A[a].t \in Int
         /\ \A b \in 1..Len(Comparison!B) : Comparison!B[b].t \in Int
         /\ \A a, b \in 1..Len(Comparison!A) : a < b => Comparison!A[a].t < Comparison!A[b].t
         /\ \A a, b \in 1..Len(Comparison!B) : a < b => Comparison!B[a].t < Comparison!B[b].t
<1>1. Comparison!A \in Seq(SeriesBins) /\ Comparison!B \in Seq(SeriesBins)
  BY DEF AveragesInv, Comparison!A, Comparison!B, Sides
<1>2. /\ \A a, b \in DOMAIN Comparison!A : a < b => Comparison!A[a].t < Comparison!A[b].t
      /\ \A a, b \in DOMAIN Comparison!B : a < b => Comparison!B[a].t < Comparison!B[b].t
  BY DEF AveragesInv, Comparison!A, Comparison!B, Sides
<1>3. /\ \A a \in 1..Len(Comparison!A) : Comparison!A[a] \in SeriesBins
      /\ \A b \in 1..Len(Comparison!B) : Comparison!B[b] \in SeriesBins
  BY <1>1
<1>4. /\ \A a \in 1..Len(Comparison!A) : Comparison!A[a].t \in Int
      /\ \A b \in 1..Len(Comparison!B) : Comparison!B[b].t \in Int
  BY <1>3 DEF SeriesBins
<1>5. DOMAIN Comparison!A = 1..Len(Comparison!A) /\ DOMAIN Comparison!B = 1..Len(Comparison!B)
  BY <1>1
<1> QED
  BY <1>1, <1>2, <1>4, <1>5

\* What the pointer leaves behind stays behind, and what is before it is not
\* nearer to a later bin.
LEMMA NearerStays ==
  ASSUME NEW x \in Int, NEW y \in Int, NEW u \in Int, NEW v \in Int, NEW d \in Int, NEW e \in Int,
         NEW f \in Int, NEW g \in Int,
         x < y, u <= v,
         d = (IF x < v THEN v - x ELSE x - v), e = (IF x < u THEN u - x ELSE x - u), d <= e,
         f = (IF y < v THEN v - y ELSE y - v), g = (IF y < u THEN u - y ELSE y - u)
  PROVE  f <= g
  OBVIOUS

\* Beyond a bin that is farther than the pointer's all are farther.
LEMMA FartherStays ==
  ASSUME NEW x \in Int, NEW u \in Int, NEW v \in Int, NEW w \in Int, NEW d \in Int, NEW e \in Int, NEW f \in Int,
         u < v, v <= w,
         d = (IF x < u THEN u - x ELSE x - u), e = (IF x < v THEN v - x ELSE x - v), d < e,
         f = (IF x < w THEN w - x ELSE x - w)
  PROVE  d <= f
  OBVIOUS

LEMMA OffIs ==
  ASSUME AveragesInv, NEW a \in 1..Len(Comparison!A), NEW b \in 1..Len(Comparison!B)
  PROVE  /\ Comparison!Off(a, b) \in Int
         /\ Comparison!Off(a, b) = IF Comparison!A[a].t < Comparison!B[b].t
                                     THEN Comparison!B[b].t - Comparison!A[a].t
                                     ELSE Comparison!A[a].t - Comparison!B[b].t
<1>1. Comparison!A[a].t \in Int /\ Comparison!B[b].t \in Int
  BY BinsInOrder
<1> QED
  BY <1>1 DEF Comparison!Off

LEMMA PairsInit == Init => PairsInv
<1> SUFFICES ASSUME Init PROVE PairsInv
  OBVIOUS
<1>1. pc = "measured" /\ place = 1 /\ pointer = 1 /\ pairs = <<>>
  BY DEF Init, Comparison!Init, ComparisonRests
<1> QED
  BY <1>1 DEF PairsInv

LEMMA BothSides ==
  ASSUME AveragesInv, PairsInv, Comparison!Aggregate("measured", "replay") \/ Comparison!Aggregate("replay", "align")
  PROVE  PairsInv'
<1>1. /\ pc \in Sides /\ pc' \in {"measured", "replay", "align"}
      /\ UNCHANGED <<place, pointer, pairs>>
  BY DEF Comparison!Aggregate, Sides
<1>2. place = 1 /\ pointer = 1 /\ pairs = <<>>
  BY <1>1 DEF PairsInv
<1>3. AveragesInv'
  BY FirstSide, SecondSide
<1>4. Comparison!A' \in Seq(SeriesBins) /\ Comparison!B' \in Seq(SeriesBins)
  BY <1>3 DEF AveragesInv, Comparison!A, Comparison!B, Sides
<1>5. Len(Comparison!A') \in Nat /\ Len(Comparison!B') \in Nat /\ (Comparison!B' # <<>> => 1 <= Len(Comparison!B'))
  BY <1>4
<1>6. \A c \in 1..pointer' : c = pointer'
  BY <1>1, <1>2
<1>7. {pairs'[k].a : k \in DOMAIN pairs'} = {} /\ {a \in 1..(place' - 1) : InReach(a)'} = {}
  BY <1>1, <1>2
<1>8. ASSUME Comparison!B' # <<>>, place' <= Len(Comparison!A')
      PROVE  Comparison!Off(1, 1)' <= Comparison!Off(1, 1)'
  <2>1. 1 \in 1..Len(Comparison!A') /\ 1 \in 1..Len(Comparison!B')
    BY <1>1, <1>2, <1>5, <1>8
  <2>2. Comparison!A'[1] \in SeriesBins /\ Comparison!B'[1] \in SeriesBins
    BY <1>4, <2>1
  <2>3. Comparison!A'[1].t \in Int /\ Comparison!B'[1].t \in Int
    BY <2>2 DEF SeriesBins
  <2>4. Comparison!Off(1, 1)' \in Int
    BY <2>3 DEF Comparison!Off
  <2> QED
    BY <2>4
<1>9. ASSUME Comparison!B' # <<>>, place' <= Len(Comparison!A')
      PROVE  \A c \in 1..pointer' : Comparison!Off(place, pointer)' <= Comparison!Off(place, c)'
  <2>1. place' = 1 /\ pointer' = 1 /\ \A c \in 1..1 : c = 1
    BY <1>1, <1>2
  <2>2. Comparison!Off(1, 1)' <= Comparison!Off(1, 1)'
    BY <1>8, <1>9
  <2>3. \A c \in 1..1 : Comparison!Off(1, 1)' <= Comparison!Off(1, c)'
    BY <2>1, <2>2
  <2> QED
    BY <2>1, <2>3 DEF Comparison!Off
<1> QED
  BY <1>1, <1>2, <1>5, <1>7, <1>9 DEF PairsInv, Sides

LEMMA SidesRest ==
  ASSUME UNCHANGED bins, NEW a, NEW b
  PROVE  /\ Comparison!A' = Comparison!A /\ Comparison!B' = Comparison!B
         /\ Comparison!Off(a, b)' = Comparison!Off(a, b)
         /\ NearestTo(a, b)' = NearestTo(a, b) /\ InReach(a)' = InReach(a)
BY DEF Comparison!A, Comparison!B, Comparison!Off, NearestTo, InReach

LEMMA AdvancePairs ==
  ASSUME AveragesInv, PairsInv, Comparison!Advance
  PROVE  PairsInv'
<1> DEFINE Off(b) == Comparison!Off(place, b)
<1>1. /\ UNCHANGED <<bins, pc, place, pairs>> /\ pc = "align" /\ Comparison!B # <<>>
      /\ place <= Len(Comparison!A) /\ pointer' = pointer + 1
      /\ pointer < Len(Comparison!B) /\ Off(pointer + 1) <= Off(pointer)
  BY DEF Comparison!Advance, Comparison!NextIsNearer
<1>2. place \in 1..Len(Comparison!A) /\ pointer \in 1..Len(Comparison!B) /\ pointer + 1 \in 1..Len(Comparison!B)
      /\ Len(Comparison!B) \in Nat /\ Len(Comparison!A) \in Nat
  BY <1>1, BinsInOrder DEF PairsInv
<1>3. \A c \in 1..Len(Comparison!B) : Off(c) \in Int
  BY <1>2, OffIs
<1>4. \A c \in 1..pointer : Off(pointer) <= Off(c)
  BY <1>1 DEF PairsInv
<1> HIDE DEF Off
<1>5. \A c \in 1..(pointer + 1) : Off(pointer + 1) <= Off(c)
  <2> SUFFICES ASSUME NEW c \in 1..(pointer + 1) PROVE Off(pointer + 1) <= Off(c)
    OBVIOUS
  <2>1. CASE c = pointer + 1
    BY <1>2, <1>3, <2>1
  <2>2. CASE c # pointer + 1
    <3>1. c \in 1..pointer /\ c \in 1..Len(Comparison!B)
      BY <1>2, <2>2
    <3> QED
      BY <1>1, <1>2, <1>3, <1>4, <3>1
  <2> QED
    BY <2>1, <2>2
<1>6. \A c : Comparison!Off(place, c)' = Off(c)
  BY <1>1 DEF Off, Comparison!Off, Comparison!A, Comparison!B
<1>7. /\ Comparison!A' = Comparison!A /\ Comparison!B' = Comparison!B
      /\ \A a, b : NearestTo(a, b)' = NearestTo(a, b) /\ InReach(a)' = InReach(a)
  BY <1>1, SidesRest
<1>8. Comparison!Off(place, pointer)' = Off(pointer + 1)
  BY <1>1 DEF Off, Comparison!Off, Comparison!A, Comparison!B
<1>9. /\ \A k \in DOMAIN pairs' : NearestTo(pairs[k].a, pairs[k].b)'
      /\ {pairs'[k].a : k \in DOMAIN pairs'} = {a \in 1..(place' - 1) : InReach(a)'}
  <2>1. /\ \A k \in DOMAIN pairs : NearestTo(pairs[k].a, pairs[k].b)
        /\ {pairs[k].a : k \in DOMAIN pairs} = {a \in 1..(place - 1) : InReach(a)}
    BY <1>1 DEF PairsInv
  <2>2. \A k : NearestTo(pairs[k].a, pairs[k].b)' = NearestTo(pairs[k].a, pairs[k].b)
    BY <1>1 DEF NearestTo, Comparison!B, Comparison!Off, Comparison!A
  <2>3. {a \in 1..(place' - 1) : InReach(a)'} = {a \in 1..(place - 1) : InReach(a)}
    BY <1>1, <1>7
  <2> QED
    BY <1>1, <2>1, <2>2, <2>3
<1>10. Comparison!B' # <<>> /\ place' <= Len(Comparison!A') =>
         \A c \in 1..pointer' : Comparison!Off(place, pointer)' <= Comparison!Off(place, c)'
  BY <1>1, <1>5, <1>6, <1>8
<1>11. /\ place' \in Nat /\ pointer' \in Nat /\ 1 <= place' /\ 1 <= pointer'
       /\ pairs' \in Seq([a : Nat, b : Nat]) /\ pc' = "align" /\ place' <= Len(Comparison!A') + 1
       /\ pointer' <= Len(Comparison!B')
  BY <1>1, <1>2, <1>7 DEF PairsInv
<1> QED
  BY <1>9, <1>10, <1>11 DEF PairsInv, Sides

LEMMA PairPairs ==
  ASSUME AveragesInv, PairsInv, Comparison!Pair
  PROVE  PairsInv'
<1> DEFINE Off(a, b) == Comparison!Off(a, b)
           nA == Len(Comparison!A)
           nB == Len(Comparison!B)
<1>1. /\ UNCHANGED <<bins, pc, pointer>> /\ pc = "align" /\ Comparison!B # <<>>
      /\ place <= nA /\ place' = place + 1
      /\ pairs' = IF Off(place, pointer) <= PairTolerance THEN Append(pairs, [a |-> place, b |-> pointer]) ELSE pairs
      /\ ~ (pointer < nB /\ Off(place, pointer + 1) <= Off(place, pointer))
  BY DEF Comparison!Pair, Comparison!NextIsNearer
<1>2. place \in 1..nA /\ pointer \in 1..nB /\ nB \in Nat /\ nA \in Nat
  BY <1>1, BinsInOrder DEF PairsInv
<1>3. \A a \in 1..nA, c \in 1..nB : Off(a, c) \in Int
  BY OffIs
<1>4. \A c \in 1..pointer : Off(place, pointer) <= Off(place, c)
  BY <1>1 DEF PairsInv
<1>5. NearestTo(place, pointer)
  <2> SUFFICES ASSUME NEW c \in 1..nB PROVE Off(place, pointer) <= Off(place, c)
    BY BinsInOrder DEF NearestTo
  <2>1. CASE c <= pointer
    BY <1>2, <1>4, <2>1
  <2>2. CASE ~ (c <= pointer)
    <3>1. pointer + 1 \in 1..nB /\ pointer < pointer + 1 /\ pointer < nB
      BY <1>2, <2>2
    <3>2. ~ (Off(place, pointer + 1) <= Off(place, pointer))
      BY <1>1, <3>1
    <3> DEFINE x == Comparison!A[place].t
               u == Comparison!B[pointer].t
               v == Comparison!B[pointer + 1].t
               w == Comparison!B[c].t
    <3>3. x \in Int /\ u \in Int /\ v \in Int /\ w \in Int /\ u < v
      BY <1>2, <3>1, BinsInOrder
    <3>4. v <= w
      <4>1. c = pointer + 1 \/ pointer + 1 < c
        BY <1>2, <2>2
      <4> QED
        BY <3>1, <3>3, <4>1, BinsInOrder
    <3>5. /\ Off(place, pointer) = (IF x < u THEN u - x ELSE x - u)
          /\ Off(place, pointer + 1) = (IF x < v THEN v - x ELSE x - v)
          /\ Off(place, c) = (IF x < w THEN w - x ELSE x - w)
      BY <1>2, <3>1, OffIs
    <3>6. Off(place, pointer) \in Int /\ Off(place, pointer + 1) \in Int /\ Off(place, c) \in Int
      BY <1>2, <1>3, <3>1
    <3> HIDE DEF x, u, v, w, Off
    <3>7. Off(place, pointer) < Off(place, pointer + 1)
      BY <3>2, <3>6
    <3> QED
      BY <3>3, <3>4, <3>5, <3>6, <3>7, FartherStays
  <2> QED
    BY <2>1, <2>2
<1>6. ASSUME place + 1 <= nA, NEW c \in 1..pointer PROVE Off(place + 1, pointer) <= Off(place + 1, c)
  <2>1. place + 1 \in 1..nA /\ place < place + 1 /\ c \in 1..nB /\ (c = pointer \/ c < pointer)
    BY <1>2, <1>6
  <2> DEFINE x == Comparison!A[place].t
             y == Comparison!A[place + 1].t
             u == Comparison!B[c].t
             v == Comparison!B[pointer].t
  <2>2. x \in Int /\ y \in Int /\ u \in Int /\ v \in Int /\ x < y
    BY <1>2, <2>1, BinsInOrder
  <2>3. u <= v
    BY <1>2, <2>1, <2>2, BinsInOrder
  <2>4. /\ Off(place, pointer) = (IF x < v THEN v - x ELSE x - v)
        /\ Off(place, c) = (IF x < u THEN u - x ELSE x - u)
        /\ Off(place + 1, pointer) = (IF y < v THEN v - y ELSE y - v)
        /\ Off(place + 1, c) = (IF y < u THEN u - y ELSE y - u)
    BY <1>2, <2>1, OffIs
  <2>5. /\ Off(place, pointer) \in Int /\ Off(place, c) \in Int
        /\ Off(place + 1, pointer) \in Int /\ Off(place + 1, c) \in Int
    BY <1>2, <1>3, <2>1
  <2>6. Off(place, pointer) <= Off(place, c)
    BY <1>4
  <2> HIDE DEF x, y, u, v, Off
  <2> QED
    BY <2>2, <2>3, <2>4, <2>5, <2>6, NearerStays
<1>7. InReach(place) <=> Off(place, pointer) <= PairTolerance
  <2>1. DOMAIN Comparison!B = 1..nB
    BY BinsInOrder
  <2>2. \A c \in 1..nB : Off(place, c) \in Int /\ Off(place, pointer) <= Off(place, c)
    BY <1>2, <1>3, <1>5, <2>1 DEF NearestTo
  <2>3. InReach(place) <=> \E c \in 1..nB : Off(place, c) <= PairTolerance
    BY <2>1 DEF InReach
  <2>4. PairTolerance \in Nat
    BY SeriesAssumption DEF SeriesAssumption
  <2> HIDE DEF Off
  <2> QED
    BY <1>2, <2>2, <2>3, <2>4
<1>8. /\ \A k \in DOMAIN pairs : NearestTo(pairs[k].a, pairs[k].b)
      /\ {pairs[k].a : k \in DOMAIN pairs} = {a \in 1..(place - 1) : InReach(a)}
      /\ pairs \in Seq([a : Nat, b : Nat])
  BY <1>1 DEF PairsInv
<1>9. 1..place = 1..(place - 1) \cup {place} /\ place \notin 1..(place - 1) /\ place \in Nat /\ pointer \in Nat
  BY <1>2
<1>10. /\ pairs' \in Seq([a : Nat, b : Nat])
       /\ \A k \in DOMAIN pairs' : NearestTo(pairs'[k].a, pairs'[k].b)
       /\ {pairs'[k].a : k \in DOMAIN pairs'} = {a \in 1..place : InReach(a)}
  <2>1. CASE Off(place, pointer) <= PairTolerance
    <3> DEFINE n == Len(pairs)
               p == [a |-> place, b |-> pointer]
    <3>1. pairs' = Append(pairs, p) /\ p \in [a : Nat, b : Nat] /\ InReach(place)
      BY <1>1, <1>7, <1>9, <2>1
    <3>2. /\ n \in Nat /\ DOMAIN pairs = 1..n /\ DOMAIN pairs' = 1..(n + 1) /\ pairs' \in Seq([a : Nat, b : Nat])
          /\ pairs'[n + 1] = p /\ \A k \in 1..n : pairs'[k] = pairs[k]
      BY <1>8, <3>1
    <3>3. p.a = place /\ p.b = pointer
      OBVIOUS
    <3> HIDE DEF n, p
    <3>4. 1..(n + 1) = 1..n \cup {n + 1}
      BY <3>2
    <3>5. \A k \in DOMAIN pairs' : NearestTo(pairs'[k].a, pairs'[k].b)
      BY <1>5, <1>8, <3>2, <3>3, <3>4
    <3>6. {pairs'[k].a : k \in 1..(n + 1)} = {pairs[k].a : k \in 1..n} \cup {place}
      <4> DEFINE N == {pairs'[k].a : k \in 1..(n + 1)}
                 O == {pairs[k].a : k \in 1..n}
      <4>1. \A x : x \in N <=> \E k \in 1..n \cup {n + 1} : x = pairs'[k].a
        BY <3>4
      <4>2. \A x : x \in O <=> \E k \in 1..n : x = pairs[k].a
        OBVIOUS
      <4>3. \A k \in 1..n : pairs'[k].a = pairs[k].a
        BY <3>2
      <4>4. pairs'[n + 1].a = place
        BY <3>2, <3>3
      <4> HIDE DEF N, O
      <4>5. ASSUME NEW x \in N PROVE x \in O \cup {place}
        <5>1. PICK k \in 1..n \cup {n + 1} : x = pairs'[k].a
          BY <4>1
        <5>2. CASE k = n + 1
          BY <4>4, <5>1, <5>2
        <5>3. CASE k \in 1..n
          <6>1. x = pairs[k].a
            BY <4>3, <5>1, <5>3
          <6> QED
            BY <4>2, <5>3, <6>1
        <5> QED
          BY <5>2, <5>3
      <4>6. ASSUME NEW x \in O \cup {place} PROVE x \in N
        <5>1. CASE x = place
          <6>1. n + 1 \in 1..n \cup {n + 1} /\ x = pairs'[n + 1].a
            BY <4>4, <5>1
          <6> QED
            BY <4>1, <6>1
        <5>2. CASE x \in O
          <6>1. PICK k \in 1..n : x = pairs[k].a
            BY <4>2, <5>2
          <6>2. x = pairs'[k].a
            BY <4>3, <6>1
          <6> QED
            BY <4>1, <6>2
        <5> QED
          BY <5>1, <5>2
      <4>7. N = O \cup {place}
        BY <4>5, <4>6
      <4> QED
        BY <4>7 DEF N, O
    <3>7. {a \in 1..place : InReach(a)} = {a \in 1..(place - 1) : InReach(a)} \cup {place}
      BY <1>9, <3>1
    <3> QED
      BY <1>8, <3>2, <3>5, <3>6, <3>7
  <2>2. CASE ~ (Off(place, pointer) <= PairTolerance)
    <3>1. pairs' = pairs /\ ~ InReach(place)
      BY <1>1, <1>7, <2>2
    <3>2. {a \in 1..place : InReach(a)} = {a \in 1..(place - 1) : InReach(a)}
      BY <1>9, <3>1
    <3> QED
      BY <1>8, <3>1, <3>2
  <2> QED
    BY <2>1, <2>2
<1>11. /\ Comparison!A' = Comparison!A /\ Comparison!B' = Comparison!B
       /\ \A a, b : /\ NearestTo(a, b)' = NearestTo(a, b) /\ InReach(a)' = InReach(a)
                    /\ Comparison!Off(a, b)' = Comparison!Off(a, b)
  BY <1>1, SidesRest
<1>12. /\ \A k \in DOMAIN pairs' : NearestTo(pairs[k].a, pairs[k].b)'
       /\ {pairs'[k].a : k \in DOMAIN pairs'} = {a \in 1..(place' - 1) : InReach(a)'}
  <2>1. \A k : NearestTo(pairs[k].a, pairs[k].b)' = NearestTo(pairs'[k].a, pairs'[k].b)
    BY <1>11 DEF NearestTo, Comparison!B, Comparison!Off, Comparison!A
  <2>2. place' - 1 = place
    BY <1>1, <1>9
  <2>3. {a \in 1..(place' - 1) : InReach(a)'} = {a \in 1..place : InReach(a)}
    BY <1>11, <2>2
  <2> QED
    BY <1>10, <2>1, <2>3
<1>13. Comparison!B' # <<>> /\ place' <= Len(Comparison!A') =>
         \A c \in 1..pointer' : Comparison!Off(place, pointer)' <= Comparison!Off(place, c)'
  <2> SUFFICES ASSUME place + 1 <= nA, NEW c \in 1..pointer
               PROVE  Comparison!Off(place, pointer)' <= Comparison!Off(place, c)'
    BY <1>1, <1>11
  <2>1. Off(place + 1, pointer) <= Off(place + 1, c)
    BY <1>6
  <2>2. /\ Comparison!Off(place, pointer)' = Off(place + 1, pointer)
        /\ Comparison!Off(place, c)' = Off(place + 1, c)
    BY <1>1 DEF Comparison!Off, Comparison!A, Comparison!B
  <2> QED
    BY <2>1, <2>2
<1>14. /\ place' \in Nat /\ pointer' \in Nat /\ 1 <= place' /\ 1 <= pointer'
       /\ pc' = "align" /\ place' <= Len(Comparison!A') + 1 /\ pointer' <= Len(Comparison!B')
  BY <1>1, <1>2, <1>11
<1> QED
  BY <1>10, <1>12, <1>13, <1>14 DEF PairsInv, Sides

LEMMA PairsRest ==
  ASSUME PairsInv, UNCHANGED <<bins, place, pointer, pairs>>,
         \/ pc' = pc
         \/ pc = "align" /\ pc' = "compared" /\ (Comparison!B = <<>> \/ place > Len(Comparison!A))
  PROVE  PairsInv'
<1>1. /\ Comparison!A' = Comparison!A /\ Comparison!B' = Comparison!B
      /\ \A a, b : /\ NearestTo(a, b)' = NearestTo(a, b) /\ InReach(a)' = InReach(a)
                   /\ Comparison!Off(a, b)' = Comparison!Off(a, b)
  BY SidesRest
<1>2. /\ Comparison!Off(place, pointer)' = Comparison!Off(place, pointer)
      /\ \A c : Comparison!Off(place, c)' = Comparison!Off(place, c)
      /\ \A k : NearestTo(pairs[k].a, pairs[k].b)' = NearestTo(pairs[k].a, pairs[k].b)
  BY DEF NearestTo, Comparison!Off, Comparison!A, Comparison!B
<1>3. CASE pc' \in {"align", "compared"}
  <2>1. pc \in {"align", "compared"}
    BY <1>3
  <2>2. {a \in 1..(place' - 1) : InReach(a)'} = {a \in 1..(place - 1) : InReach(a)}
    BY <1>1
  <2>3. /\ place \in Nat /\ pointer \in Nat /\ 1 <= place /\ 1 <= pointer
        /\ pairs \in Seq([a : Nat, b : Nat])
        /\ place <= Len(Comparison!A) + 1
        /\ Comparison!B # <<>> => pointer <= Len(Comparison!B)
        /\ Comparison!B # <<>> /\ place <= Len(Comparison!A) =>
             \A c \in 1..pointer : Comparison!Off(place, pointer) <= Comparison!Off(place, c)
        /\ \A k \in DOMAIN pairs : NearestTo(pairs[k].a, pairs[k].b)
        /\ {pairs[k].a : k \in DOMAIN pairs} = {a \in 1..(place - 1) : InReach(a)}
        /\ pc' = "compared" => Comparison!B = <<>> \/ place > Len(Comparison!A)
    BY <1>3, <2>1 DEF PairsInv
  <2> QED
    BY <1>1, <1>2, <1>3, <2>2, <2>3 DEF PairsInv, Sides
<1>4. CASE pc' \notin {"align", "compared"}
  <2>1. pc' = pc
    BY <1>4
  <2> QED
    BY <1>4, <2>1 DEF PairsInv, Sides
<1> QED
  BY <1>3, <1>4

LEMMA PairsNext == AveragesInv /\ PairsInv /\ [Comparison!Next]_(Comparison!vars) => PairsInv'
<1> SUFFICES ASSUME AveragesInv, PairsInv, [Comparison!Next]_(Comparison!vars) PROVE PairsInv'
  OBVIOUS
<1>1. CASE Comparison!Aggregate("measured", "replay") \/ Comparison!Aggregate("replay", "align")
  BY <1>1, BothSides
<1>2. CASE Comparison!Advance
  BY <1>2, AdvancePairs
<1>3. CASE Comparison!Pair
  BY <1>3, PairPairs
<1>4. CASE Comparison!Compare
  BY <1>4, PairsRest DEF Comparison!Compare
<1>5. CASE UNCHANGED Comparison!vars
  BY <1>5, PairsRest DEF Comparison!vars
<1> QED
  BY <1>1, <1>2, <1>3, <1>4, <1>5 DEF Comparison!Next

LEMMA PairsHold == AveragesInv /\ PairsInv => Comparison!PairsAreNearest
<1> SUFFICES ASSUME AveragesInv, PairsInv PROVE Comparison!PairsAreNearest
  OBVIOUS
<1>1. \A k \in DOMAIN pairs : NearestTo(pairs[k].a, pairs[k].b)
  <2>1. CASE pc \in Sides
    BY <2>1 DEF PairsInv
  <2>2. CASE pc \in {"align", "compared"}
    BY <2>2 DEF PairsInv
  <2> QED
    BY <2>1, <2>2 DEF AveragesInv, Sides
<1>2. ASSUME pc = "compared"
      PROVE  {pairs[k].a : k \in DOMAIN pairs} = {a \in DOMAIN Comparison!A : InReach(a)}
  <2>1. /\ {pairs[k].a : k \in DOMAIN pairs} = {a \in 1..(place - 1) : InReach(a)}
        /\ place <= Len(Comparison!A) + 1 /\ place \in Nat /\ 1 <= place
        /\ Comparison!B = <<>> \/ place > Len(Comparison!A)
    BY <1>2 DEF PairsInv
  <2>2. DOMAIN Comparison!A = 1..Len(Comparison!A) /\ Len(Comparison!A) \in Nat
    BY BinsInOrder
  <2>3. CASE Comparison!B = <<>>
    <3>1. \A a : ~ InReach(a)
      BY <2>3 DEF InReach
    <3> QED
      BY <2>1, <3>1
  <2>4. CASE place > Len(Comparison!A)
    <3>1. place - 1 = Len(Comparison!A)
      BY <2>1, <2>2, <2>4
    <3> QED
      BY <2>1, <2>2, <3>1
  <2> QED
    BY <2>1, <2>3, <2>4
<1> QED
  BY <1>1, <1>2 DEF Comparison!PairsAreNearest, NearestTo, InReach

-----------------------------------------------------------------------------
(* Medians and thresholds.                                                  *)

AtMost(S, f, x) == Cardinality({y \in S : f[y] <= f[x]})
Ranked(S, f, r) ==
  CHOOSE x \in S : AtMost(S, f, x) >= r /\ \A y \in S : AtMost(S, f, y) >= r => f[x] <= f[y]

\* There is an element of every rank.
LEMMA RankedIn ==
  ASSUME NEW S, IsFiniteSet(S), NEW f, DOMAIN f = S, \A x \in S : f[x] \in Int,
         NEW r \in Nat, 1 <= r, r <= Cardinality(S)
  PROVE  Ranked(S, f, r) \in S
<1> DEFINE T == {x \in S : AtMost(S, f, x) >= r}
           V == {f[x] : x \in T}
           W == {f[x] : x \in S}
<1>1. IsFiniteSet(W) /\ W \in SUBSET Int
  BY ImageIsFinite
<1>2. W # {}
  <2>1. S # {}
    BY FS_EmptySet
  <2> QED
    BY <2>1
<1>3. T # {}
  <2>1. PICK w \in W : \A v \in W : v <= w
    BY <1>1, <1>2, FiniteHasEnds
  <2>2. PICK x \in S : w = f[x]
    BY <2>1
  <2>3. {y \in S : f[y] <= f[x]} = S
    BY <2>1, <2>2
  <2>4. AtMost(S, f, x) = Cardinality(S)
    BY <2>3 DEF AtMost
  <2>5. Cardinality(S) \in Nat
    BY FS_CardinalityType
  <2> QED
    BY <2>2, <2>4, <2>5
<1>4. V \in SUBSET Int /\ IsFiniteSet(V) /\ V # {}
  <2>1. V \in SUBSET W
    OBVIOUS
  <2> QED
    BY <1>1, <1>3, <2>1, FS_Subset
<1>5. PICK w \in V : \A v \in V : w <= v
  BY <1>4, FiniteHasEnds
<1>6. PICK x \in T : w = f[x]
  BY <1>5
<1>7. x \in S /\ AtMost(S, f, x) >= r /\ \A y \in S : AtMost(S, f, y) >= r => f[x] <= f[y]
  BY <1>5, <1>6
<1> QED
  BY <1>7 DEF Ranked

\* Twice a median is the sum of two of the numbers.
LEMMA MedianOfTwo ==
  ASSUME NEW S, IsFiniteSet(S), S # {}, NEW f, DOMAIN f = S, \A x \in S : f[x] \in Int
  PROVE  \E x, y \in S : Metrics!TwiceMedian(S, f) = f[x] + f[y]
<1> DEFINE n == Cardinality(S)
           a == (n + 1) \div 2
           b == n \div 2 + 1
<1>1. n \in Nat /\ n # 0
  BY FS_CardinalityType, FS_EmptySet
<1>2. a \in Nat /\ 1 <= a /\ a <= n /\ b \in Nat /\ 1 <= b /\ b <= n
  <2> HIDE DEF n
  <2> QED
    BY <1>1
<1>3. \A T : Metrics!Cardinality(T) = Cardinality(T)
  BY DEF Metrics!Cardinality, Cardinality, Metrics!IsFiniteSet, IsFiniteSet
<1>4. Metrics!TwiceMedian(S, f) = f[Ranked(S, f, a)] + f[Ranked(S, f, b)]
  BY <1>3 DEF Metrics!TwiceMedian, Ranked, AtMost
<1> HIDE DEF a, b
<1>5. Ranked(S, f, a) \in S /\ Ranked(S, f, b) \in S
  BY <1>2, RankedIn
<1> QED
  BY <1>4, <1>5

-----------------------------------------------------------------------------
(* Samples and thresholds.                                                  *)

LogOK(log) ==
  /\ log \subseteq Samples /\ IsFiniteSet(log)
  /\ \A s, o \in log : s.t = o.t => s = o

Gap(a, b) == Metrics!Distance(a, b)

LEMMA GapIs ==
  ASSUME NEW a \in Int, NEW b \in Int
  PROVE  /\ Gap(a, b) \in Nat /\ Gap(a, b) = Gap(b, a)
         /\ a - b <= Gap(a, b) /\ b - a <= Gap(a, b) /\ (Gap(a, b) = a - b \/ Gap(a, b) = b - a)
  BY DEF Gap, Metrics!Distance

LEMMA SamplesAre ==
  ASSUME NEW log, LogOK(log), NEW s \in log
  PROVE  /\ s \in [t : Nat, rtt : Int \cup {NoRtt}, timeout : BOOLEAN]
         /\ s.t \in Nat /\ (s.rtt # NoRtt => s.rtt \in Int) /\ s.timeout \in BOOLEAN
         /\ (s.timeout => s.rtt = NoRtt)
<1>1. s \in Samples
  BY DEF LogOK
<1>2. s \in [t : Nat, rtt : Int \cup {NoRtt}, timeout : BOOLEAN] /\ (s.timeout => s.rtt = NoRtt)
  BY <1>1 DEF Samples
<1> QED
  BY <1>2

\* The samples before the event.
Earlier(log, start) == {s \in log : s.t < start}

LEMMA BeforeIs ==
  ASSUME NEW log, LogOK(log), NEW start \in Int, NEW margin \in Nat,
         Earlier(log, start) # {}, \A s \in Earlier(log, start) : s.rtt # NoRtt
  PROVE  /\ Metrics!Before(log, start, margin) \in SUBSET Earlier(log, start)
         /\ Metrics!Before(log, start, margin) # {} /\ IsFiniteSet(Metrics!Before(log, start, margin))
<1> DEFINE near == {s \in Metrics!Usable(log) : start - margin <= s.t /\ s.t < start}
           all == {s \in Metrics!Usable(log) : s.t < start}
<1>1. \A T : Metrics!Cardinality(T) = Cardinality(T)
  BY DEF Metrics!Cardinality, Cardinality, Metrics!IsFiniteSet, IsFiniteSet
<1>2. Metrics!Before(log, start, margin) = IF Cardinality(near) < 3 THEN all ELSE near
  BY <1>1 DEF Metrics!Before
<1>3. near \subseteq Earlier(log, start) /\ all = Earlier(log, start)
  BY DEF Earlier, Metrics!Usable
<1>4. ~ (Cardinality(near) < 3) => near # {}
  BY FS_EmptySet
<1>5. Earlier(log, start) \in SUBSET log
  BY DEF Earlier
<1> HIDE DEF near, all
<1>6. Metrics!Before(log, start, margin) \in SUBSET Earlier(log, start)
  BY <1>2, <1>3
<1>7. Metrics!Before(log, start, margin) # {}
  BY <1>2, <1>3, <1>4
<1>8. IsFiniteSet(Metrics!Before(log, start, margin))
  <2>1. Metrics!Before(log, start, margin) \in SUBSET log
    BY <1>5, <1>6
  <2> QED
    BY <2>1, FS_Subset DEF LogOK
<1> QED
  BY <1>6, <1>7, <1>8

CalmBefore(log, start) ==
  /\ Earlier(log, start) # {} /\ \A s \in Earlier(log, start) : s.rtt # NoRtt
  /\ \A s, o \in Earlier(log, start) : Gap(s.rtt, o.rtt) < 10

\* A threshold next to the mean of two samples.
NextTo(th, x, y) ==
  /\ x.rtt \in Int /\ y.rtt \in Int /\ th \in Int
  /\ 20000 * (x.rtt + y.rtt) + 400000 <= th /\ th <= 20000 * (x.rtt + y.rtt) + 1601208

\* Where the samples before an event are near one round trip, the threshold is
\* above all of them, and not far.
LEMMA ThresholdNear ==
  ASSUME NEW log, LogOK(log), NEW start \in Int, NEW margin \in Nat,
         CalmBefore(log, start)
  PROVE  \E x, y \in Earlier(log, start) : NextTo(Metrics!BaselineThreshold(log, start, margin), x, y)
<1> DEFINE S == Metrics!Before(log, start, margin)
           f == [s \in S |-> s.rtt]
           m == Metrics!TwiceMedian(S, f)
           g == [s \in S |-> Metrics!Distance(2 * s.rtt, m)]
           d == Metrics!TwiceMedian(S, g)
           th == Metrics!BaselineThreshold(log, start, margin)
<1>1. S \in SUBSET Earlier(log, start) /\ S # {} /\ IsFiniteSet(S)
  BY BeforeIs DEF CalmBefore
<1>2. th = 20000 * m + Metrics!Larger(400000, 44478 * d)
  BY <1>1, SMT DEF Metrics!BaselineThreshold
<1>3. \A s \in Earlier(log, start) : s.rtt \in Int
  <2>1. \A s \in Earlier(log, start) : s \in log /\ s.rtt # NoRtt
    BY DEF Earlier, CalmBefore
  <2> QED
    BY <2>1, SamplesAre
<1>4. DOMAIN f = S /\ (\A s \in S : f[s] = s.rtt) /\ DOMAIN g = S /\ \A s \in S : g[s] = Metrics!Distance(2 * s.rtt, m)
  OBVIOUS
<1> HIDE DEF S, f, g, m, d, th
<1>5. PICK x, y \in S : m = f[x] + f[y]
  BY <1>1, <1>3, <1>4, MedianOfTwo, SMT DEF m
<1>6. x \in Earlier(log, start) /\ y \in Earlier(log, start) /\ m = x.rtt + y.rtt
      /\ x.rtt \in Int /\ y.rtt \in Int
  BY <1>1, <1>3, <1>4, <1>5, SMT
<1>7. ASSUME NEW s \in S PROVE g[s] \in Int /\ 0 <= g[s] /\ g[s] <= 18
  <2>1. s.rtt \in Int /\ Gap(s.rtt, x.rtt) < 10 /\ Gap(s.rtt, y.rtt) < 10
    BY <1>1, <1>3, <1>6 DEF CalmBefore
  <2>2. /\ s.rtt - x.rtt < 10 /\ x.rtt - s.rtt < 10 /\ s.rtt - y.rtt < 10 /\ y.rtt - s.rtt < 10
    <3>1. Gap(s.rtt, x.rtt) \in Nat /\ s.rtt - x.rtt <= Gap(s.rtt, x.rtt) /\ x.rtt - s.rtt <= Gap(s.rtt, x.rtt)
      BY <1>6, <2>1, GapIs
    <3>2. Gap(s.rtt, y.rtt) \in Nat /\ s.rtt - y.rtt <= Gap(s.rtt, y.rtt) /\ y.rtt - s.rtt <= Gap(s.rtt, y.rtt)
      BY <1>6, <2>1, GapIs
    <3> QED
      BY <1>6, <2>1, <3>1, <3>2
  <2>3. 2 * s.rtt \in Int /\ m \in Int /\ 2 * s.rtt - m <= 18 /\ m - 2 * s.rtt <= 18
    BY <1>6, <2>1, <2>2, SMT
  <2>4. g[s] = Gap(2 * s.rtt, m)
    BY <1>4, SMT DEF Gap
  <2> QED
    <3>1. Gap(2 * s.rtt, m) \in Nat /\ (Gap(2 * s.rtt, m) = 2 * s.rtt - m \/ Gap(2 * s.rtt, m) = m - 2 * s.rtt)
      <4> DEFINE a == 2 * s.rtt
      <4>1. a \in Int
        BY <2>3
      <4> HIDE DEF a
      <4>2. Gap(a, m) \in Nat /\ (Gap(a, m) = a - m \/ Gap(a, m) = m - a)
        BY <2>3, <4>1, GapIs
      <4> QED
        BY <4>2 DEF a
    <3> QED
      BY <2>3, <2>4, <3>1
<1>8. PICK u, v \in S : d = g[u] + g[v]
  BY <1>1, <1>4, <1>7, MedianOfTwo, SMT DEF d
<1>9. d \in Int /\ 0 <= d /\ d <= 36
  <2>1. g[u] \in Int /\ 0 <= g[u] /\ g[u] <= 18 /\ g[v] \in Int /\ 0 <= g[v] /\ g[v] <= 18
    BY <1>7, SMT
  <2> QED
    BY <1>8, <2>1, SMT
<1>10. /\ Metrics!Larger(400000, 44478 * d) \in Int
       /\ 400000 <= Metrics!Larger(400000, 44478 * d) /\ Metrics!Larger(400000, 44478 * d) <= 1601208
  BY <1>9, SMT DEF Metrics!Larger
<1>11. /\ th \in Int /\ 20000 * (x.rtt + y.rtt) + 400000 <= th /\ th <= 20000 * (x.rtt + y.rtt) + 1601208
  <2> DEFINE q == Metrics!Larger(400000, 44478 * d)
             p == 20000 * m
  <2>1. p \in Int /\ p = 20000 * (x.rtt + y.rtt)
    BY <1>6, SMT
  <2>2. th = p + q /\ q \in Int /\ 400000 <= q /\ q <= 1601208
    BY <1>2, <1>10, SMT
  <2> HIDE DEF p, q
  <2> QED
    BY <2>1, <2>2, SMT
<1> QED
  BY <1>6, <1>11, SMT DEF NextTo, th

\* A sample near all of these is below the threshold, and one far above is not.
LEMMA NearIsBelow ==
  ASSUME NEW log, LogOK(log), NEW start \in Int, NEW margin \in Nat,
         CalmBefore(log, start), NEW r \in Int
  PROVE  /\ (\A o \in Earlier(log, start) : Gap(r, o.rtt) < 10)
              => ~ (40000 * r >= Metrics!BaselineThreshold(log, start, margin))
         /\ (\A o \in Earlier(log, start) : r > o.rtt + 40)
              => 40000 * r >= Metrics!BaselineThreshold(log, start, margin)
<1> DEFINE th == Metrics!BaselineThreshold(log, start, margin)
<1>0. PICK x, y \in Earlier(log, start) : NextTo(th, x, y)
  BY ThresholdNear
<1> HIDE DEF th
<1>1. /\ x.rtt \in Int /\ y.rtt \in Int /\ th \in Int
      /\ 20000 * (x.rtt + y.rtt) + 400000 <= th
      /\ th <= 20000 * (x.rtt + y.rtt) + 1601208
  BY <1>0, SMT DEF NextTo
<1>2. ASSUME \A o \in Earlier(log, start) : Gap(r, o.rtt) < 10 PROVE ~ (40000 * r >= th)
  <2>1. Gap(r, x.rtt) < 10 /\ Gap(r, y.rtt) < 10
    BY <1>2, SMT
  <2>2. r - x.rtt <= 9 /\ r - y.rtt <= 9
    <3>1. r - x.rtt <= Gap(r, x.rtt) /\ r - y.rtt <= Gap(r, y.rtt) /\ Gap(r, x.rtt) \in Nat /\ Gap(r, y.rtt) \in Nat
      <4>1. x.rtt \in Int /\ y.rtt \in Int
        BY <1>0 DEF NextTo
      <4> QED
        BY <4>1, GapIs
    <3> QED
      BY <1>1, <2>1, <3>1, SMT
  <2> QED
    BY <1>1, <2>2, SMT
<1>3. ASSUME \A o \in Earlier(log, start) : r > o.rtt + 40 PROVE 40000 * r >= th
  <2>1. r > x.rtt + 40 /\ r > y.rtt + 40
    BY <1>3, SMT
  <2> QED
    BY <1>1, <2>1, SMT
<1> QED
  BY <1>2, <1>3, SMT DEF th

-----------------------------------------------------------------------------
(* What is found in the logs.                                               *)

\* What was evaluated is what the logs say of each window, and the counts are of
\* all of them.
Windows == [start : Int, end : Int]

Evaluated == [e \in Windows |->
  [ measured |-> Metrics!Summary(measured, e), replayed |-> Metrics!Summary(replayed, e),
    aligned |-> Metrics!AlignedErrors(e),
    errors |-> [k \in {"start", "end", "duration", "peak", "peakTime"} |->
                  Metrics!Difference(Metrics!Summary(measured, e), Metrics!Summary(replayed, e), k)] ] ]

Having(m, r) ==
  {k \in DOMAIN results : results[k].measured.detected = m /\ results[k].replayed.detected = r}

MetricsInv ==
  /\ LogOK(measured) /\ LogOK(replayed) /\ threshold \in Maybe(Int)
  /\ windows \in Seq(Windows)
  /\ Len(results) \in Nat /\ DOMAIN results = 1..Len(results) /\ Len(results) <= Len(windows)
  /\ \A k \in DOMAIN results : results[k] = Evaluated[windows[k]]
  /\ counts # None => /\ Len(results) = Len(windows)
                      /\ counts.missed = Cardinality(Having(TRUE, FALSE))
                      /\ counts.spurious = Cardinality(Having(FALSE, TRUE))

LEMMA MetricsInit == Init => MetricsInv
<1> SUFFICES ASSUME Init PROVE MetricsInv
  OBVIOUS
<1>1. Metrics!Init \/ MetricsRests
  BY DEF Init
<1>2. CASE Metrics!Init
  <2>1. measured \in Logs /\ replayed \in Logs /\ windows \in WindowLists /\ threshold \in Thresholds
        /\ results = <<>> /\ counts = None
    BY <1>2 DEF Metrics!Init
  <2>2. LogOK(measured) /\ LogOK(replayed)
    BY <2>1, LogsAssumption DEF LogsAssumption, LogOK
  <2>3. threshold \in Maybe(Int) /\ windows \in Seq(Windows)
    BY <2>1, LogsAssumption DEF LogsAssumption, Windows
  <2>4. Len(windows) \in Nat
    BY <2>3
  <2> QED
    BY <2>1, <2>2, <2>3, <2>4 DEF MetricsInv
<1>3. CASE MetricsRests
  <2>1. measured = {} /\ replayed = {} /\ windows = <<>> /\ threshold = None /\ results = <<>> /\ counts = None
    BY <1>3 DEF MetricsRests
  <2>2. LogOK(measured) /\ LogOK(replayed)
    BY <2>1, FS_EmptySet DEF LogOK
  <2>3. windows \in Seq(Windows) /\ Len(windows) \in Nat
    BY <2>1
  <2> QED
    BY <2>1, <2>2, <2>3 DEF MetricsInv, Maybe
<1> QED
  BY <1>1, <1>2, <1>3

LEMMA EvaluatedKeeps == UNCHANGED <<measured, replayed, windows, threshold>> => Evaluated' = Evaluated
<1> SUFFICES ASSUME UNCHANGED <<measured, replayed, windows, threshold>> PROVE Evaluated' = Evaluated
  OBVIOUS
<1>1. ASSUME NEW log, NEW e PROVE Metrics!Abnormal(log, e)' = Metrics!Abnormal(log, e)
  BY DEF Metrics!Abnormal, Metrics!EffectiveThreshold
<1>2. ASSUME NEW e PROVE Metrics!Summary(measured, e)' = Metrics!Summary(measured, e)
  <2>1. Metrics!Abnormal(measured, e)' = Metrics!Abnormal(measured, e)
    BY DEF Metrics!Abnormal, Metrics!EffectiveThreshold
  <2> QED
    BY <2>1 DEF Metrics!Summary
<1>3. ASSUME NEW e PROVE Metrics!Summary(replayed, e)' = Metrics!Summary(replayed, e)
  <2>1. Metrics!Abnormal(replayed, e)' = Metrics!Abnormal(replayed, e)
    BY DEF Metrics!Abnormal, Metrics!EffectiveThreshold
  <2> QED
    BY <2>1 DEF Metrics!Summary
<1>4. ASSUME NEW e PROVE Metrics!AlignedErrors(e)' = Metrics!AlignedErrors(e)
  BY DEF Metrics!AlignedErrors
<1> QED
  BY <1>2, <1>3, <1>4 DEF Evaluated

LEMMA MetricsNext == MetricsInv /\ [Metrics!Next]_(Metrics!vars) => MetricsInv'
<1> SUFFICES ASSUME MetricsInv, [Metrics!Next]_(Metrics!vars) PROVE MetricsInv'
  OBVIOUS
<1>1. UNCHANGED <<measured, replayed, windows, threshold>>
  BY DEF Metrics!Next, Metrics!EvaluateEvent, Metrics!CountEvents, Metrics!vars
<1>2. Evaluated' = Evaluated
  BY <1>1, EvaluatedKeeps
<1>3. (LogOK(measured) /\ LogOK(replayed))'
  BY <1>1 DEF MetricsInv, LogOK
<1>4. CASE Metrics!EvaluateEvent
  <2> DEFINE n == Len(results)
             e == windows[n + 1]
  <2>1. n < Len(windows) /\ results' = Append(results, Evaluated[e]) /\ counts' = counts
    <3>1. n < Len(windows) /\ counts' = counts
      BY <1>4 DEF Metrics!EvaluateEvent
    <3>2. e \in Windows
      <4>1. n \in Nat /\ windows \in Seq(Windows) /\ Len(windows) \in Nat
        BY DEF MetricsInv
      <4>2. n + 1 \in 1..Len(windows)
        BY <3>1, <4>1
      <4> QED
        BY <4>1, <4>2
    <3>3. results' = Append(results,
             [ measured |-> Metrics!Summary(measured, e), replayed |-> Metrics!Summary(replayed, e),
               aligned |-> Metrics!AlignedErrors(e),
               errors |-> [k \in {"start", "end", "duration", "peak", "peakTime"} |->
                  Metrics!Difference(Metrics!Summary(measured, e), Metrics!Summary(replayed, e), k)] ])
      BY <1>4, Zenon DEF Metrics!EvaluateEvent
    <3> HIDE DEF e
    <3> QED
      BY <3>1, <3>2, <3>3 DEF Evaluated
  <2>2. counts' = None
    <3>1. Len(results) \in Nat /\ Len(windows) \in Nat
      BY DEF MetricsInv
    <3>2. Len(results) # Len(windows)
      BY <2>1, <3>1
    <3>3. counts # None => Len(results) = Len(windows)
      BY DEF MetricsInv
    <3>4. counts' = counts
      BY <2>1
    <3> QED
      BY <3>2, <3>3, <3>4
  <2>3. n \in Nat /\ DOMAIN results = 1..n /\ Len(windows) \in Nat
    BY DEF MetricsInv
  <2> HIDE DEF e
  <2>4. /\ Len(results') = n + 1 /\ DOMAIN results' = 1..(n + 1)
        /\ results'[n + 1] = Evaluated[e] /\ \A k \in 1..n : results'[k] = results[k]
    BY <2>1, <2>3
  <2>5. ASSUME NEW k \in 1..(n + 1) PROVE results'[k] = Evaluated[windows[k]]
    <3>1. CASE k = n + 1
      BY <2>4, <3>1 DEF e
    <3>2. CASE k # n + 1
      <4>1. k \in 1..n
        BY <2>3, <3>2
      <4> QED
        BY <2>3, <2>4, <4>1 DEF MetricsInv
    <3> QED
      BY <3>1, <3>2
  <2>6. n + 1 \in Nat /\ n + 1 <= Len(windows)
    BY <2>1, <2>3
  <2>7. threshold \in Maybe(Int) /\ windows \in Seq(Windows)
    BY DEF MetricsInv
  <2> QED
    BY <1>1, <1>2, <1>3, <2>2, <2>4, <2>5, <2>6, <2>7 DEF MetricsInv
<1>5. CASE Metrics!CountEvents
  <2>1. Len(results) = Len(windows) /\ results' = results
    BY <1>5 DEF Metrics!CountEvents
  <2>2. \A T : Metrics!Cardinality(T) = Cardinality(T)
    BY DEF Metrics!Cardinality, Cardinality, Metrics!IsFiniteSet, IsFiniteSet
  <2>3. /\ counts'.missed = Cardinality(Having(TRUE, FALSE))
        /\ counts'.spurious = Cardinality(Having(FALSE, TRUE))
    BY <1>5, <2>2 DEF Metrics!CountEvents, Having
  <2>4. Having(TRUE, FALSE)' = Having(TRUE, FALSE) /\ Having(FALSE, TRUE)' = Having(FALSE, TRUE)
    BY <2>1 DEF Having
  <2> QED
    BY <1>1, <1>2, <1>3, <2>1, <2>3, <2>4 DEF MetricsInv
<1>6. CASE UNCHANGED Metrics!vars
  <2>1. results' = results /\ counts' = counts
    BY <1>6 DEF Metrics!vars
  <2>2. Having(TRUE, FALSE)' = Having(TRUE, FALSE) /\ Having(FALSE, TRUE)' = Having(FALSE, TRUE)
    BY <2>1 DEF Having
  <2> QED
    BY <1>1, <1>2, <1>3, <2>1, <2>2 DEF MetricsInv
<1> QED
  BY <1>4, <1>5, <1>6 DEF Metrics!Next

Outside(log, e) == {x \in log : ~ Metrics!Inside(x, e)}

LEMMA CalmSamples ==
  ASSUME NEW log, LogOK(log), NEW e \in Windows, Metrics!Calm(log, e)
  PROVE  /\ CalmBefore(log, e.start) /\ Earlier(log, e.start) \in SUBSET Outside(log, e)
         /\ \A s \in Outside(log, e) : s.rtt \in Int /\ ~ s.timeout
         /\ \A s, o \in Outside(log, e) : Gap(s.rtt, o.rtt) < 10
<1>1. e.start \in Int /\ e.end \in Int
  BY DEF Windows
<1>2. Earlier(log, e.start) \in SUBSET Outside(log, e)
  <2> SUFFICES ASSUME NEW s \in log, s.t < e.start PROVE ~ (e.start <= s.t)
    BY DEF Earlier, Outside, Metrics!Inside
  <2>1. s.t \in Nat
    BY SamplesAre
  <2> QED
    BY <1>1, <2>1
<1>3. \A s, o \in Outside(log, e) : s.rtt # NoRtt /\ o.rtt # NoRtt /\ Gap(s.rtt, o.rtt) < 10
  BY DEF Metrics!Calm, Outside, Gap
<1>4. \A s \in Outside(log, e) : s.rtt \in Int /\ ~ s.timeout
  <2> SUFFICES ASSUME NEW s \in Outside(log, e) PROVE s.rtt \in Int /\ ~ s.timeout
    OBVIOUS
  <2>1. s \in log /\ s.rtt # NoRtt
    BY <1>3 DEF Outside
  <2> QED
    BY <2>1, SamplesAre
<1>5. Earlier(log, e.start) # {}
  BY DEF Metrics!Calm, Earlier
<1> QED
  BY <1>2, <1>3, <1>4, <1>5 DEF CalmBefore

High(log, e, s) == 40000 * s.rtt >= Metrics!EffectiveThreshold(log, e)

LEMMA AbnormalIs ==
  ASSUME NEW log, NEW e, NEW s
  PROVE  s \in Metrics!Abnormal(log, e) <=>
           s \in Metrics!Window(log, e) /\ (s.timeout \/ (s.rtt # NoRtt /\ High(log, e, s)))
<1>1. Metrics!Abnormal(log, e) = {x \in Metrics!Window(log, e) : x.timeout \/ (x.rtt # NoRtt /\ High(log, e, x))}
  BY SMT DEF Metrics!Abnormal, High
<1> QED
  BY <1>1

LEMMA ThresholdIs ==
  ASSUME threshold = None, NEW log, NEW e
  PROVE  Metrics!EffectiveThreshold(log, e) = Metrics!BaselineThreshold(log, e.start, Metrics!Larger(2, 2 * Margin))
         /\ Metrics!Larger(2, 2 * Margin) \in Nat
<1>1. Margin \in Nat
  BY LogsAssumption DEF LogsAssumption
<1>2. Metrics!Larger(2, 2 * Margin) \in Nat
  BY <1>1 DEF Metrics!Larger
<1> HIDE DEF Metrics!Larger
<1> QED
  BY <1>2 DEF Metrics!EffectiveThreshold

\* A sample near the calm ones is not abnormal, and one far above them is.
LEMMA NearIsNormal ==
  ASSUME threshold = None, NEW log, LogOK(log), NEW e \in Windows, CalmBefore(log, e.start), NEW s \in log,
         s.rtt \in Int, \A o \in Earlier(log, e.start) : Gap(s.rtt, o.rtt) < 10
  PROVE  s \notin Metrics!Abnormal(log, e)
<1> DEFINE margin == Metrics!Larger(2, 2 * Margin)
           high == 40000 * s.rtt >= Metrics!BaselineThreshold(log, e.start, margin)
<1>1. ~ s.timeout
  BY SamplesAre, LogsAssumption DEF LogsAssumption
<1>2. e.start \in Int /\ margin \in Nat
  BY ThresholdIs DEF Windows
<1>3. High(log, e, s) <=> high
  BY ThresholdIs, SMT DEF High
<1>4. ~ high
  <2> HIDE DEF margin
  <2> QED
    BY <1>2, NearIsBelow, SMT
<1> HIDE DEF high
<1> QED
  BY <1>1, <1>3, <1>4, AbnormalIs

LEMMA FarIsAbnormal ==
  ASSUME threshold = None, NEW log, LogOK(log), NEW e \in Windows, CalmBefore(log, e.start),
         NEW s \in Metrics!Window(log, e),
         s.rtt \in Int, \A o \in Earlier(log, e.start) : s.rtt > o.rtt + 40
  PROVE  s \in Metrics!Abnormal(log, e)
<1> DEFINE margin == Metrics!Larger(2, 2 * Margin)
           high == 40000 * s.rtt >= Metrics!BaselineThreshold(log, e.start, margin)
<1>1. s.rtt # NoRtt
  BY LogsAssumption DEF LogsAssumption
<1>2. e.start \in Int /\ margin \in Nat
  BY ThresholdIs DEF Windows
<1>3. High(log, e, s) <=> high
  BY ThresholdIs, SMT DEF High
<1>4. high
  <2> HIDE DEF margin
  <2> QED
    BY <1>2, NearIsBelow, SMT
<1> HIDE DEF high
<1> QED
  BY <1>1, <1>3, <1>4, AbnormalIs

\* No sample of a calm log is abnormal.
LEMMA CalmIsNormal ==
  ASSUME threshold = None, NEW log, LogOK(log), NEW e \in Windows, Metrics!Calm(log, e),
         \A s, o \in log : s.rtt # NoRtt /\ Gap(s.rtt, o.rtt) < 10
  PROVE  Metrics!Abnormal(log, e) = {}
<1> SUFFICES ASSUME NEW s \in Metrics!Abnormal(log, e) PROVE FALSE
  OBVIOUS
<1>1. s \in log
  BY DEF Metrics!Abnormal, Metrics!Window
<1>2. s.rtt \in Int
  BY <1>1, SamplesAre
<1>3. \A o \in Earlier(log, e.start) : Gap(s.rtt, o.rtt) < 10
  BY <1>1 DEF Earlier
<1>4. CalmBefore(log, e.start)
  BY CalmSamples
<1> QED
  BY <1>1, <1>2, <1>3, <1>4, NearIsNormal

LEMMA DetectedIs ==
  ASSUME NEW log, NEW e
  PROVE  Metrics!Summary(log, e).detected <=> Metrics!Abnormal(log, e) # {}
BY DEF Metrics!Summary

LEMMA ResultIs ==
  ASSUME MetricsInv, NEW k \in DOMAIN results
  PROVE  /\ windows[k] \in Windows /\ results[k] = Evaluated[windows[k]]
         /\ results[k].measured = Metrics!Summary(measured, windows[k])
         /\ results[k].replayed = Metrics!Summary(replayed, windows[k])
         /\ results[k].aligned = Metrics!AlignedErrors(windows[k])
<1>1. windows[k] \in Windows
  <2>1. DOMAIN windows = 1..Len(windows) /\ k \in 1..Len(results) /\ Len(results) \in Nat
        /\ Len(windows) \in Nat /\ Len(results) <= Len(windows) /\ windows \in Seq(Windows)
    BY DEF MetricsInv
  <2>2. k \in 1..Len(windows)
    BY <2>1
  <2> QED
    BY <2>1, <2>2
<1>2. results[k] = Evaluated[windows[k]]
  BY DEF MetricsInv
<1> QED
  BY <1>1, <1>2 DEF Evaluated

LEMMA JitterHolds == MetricsInv => Metrics!JitterIsNoEvent
<1> SUFFICES ASSUME MetricsInv, threshold = None, NEW k \in DOMAIN results
             PROVE  /\ Metrics!Calm(measured, windows[k])
                       /\ (\A s, o \in measured : s.rtt # NoRtt /\ Metrics!Distance(s.rtt, o.rtt) < 10)
                       => ~ results[k].measured.detected
                    /\ Metrics!Calm(replayed, windows[k])
                       /\ (\A s, o \in replayed : s.rtt # NoRtt /\ Metrics!Distance(s.rtt, o.rtt) < 10)
                       => ~ results[k].replayed.detected
  BY DEF Metrics!JitterIsNoEvent
<1>1. LogOK(measured) /\ LogOK(replayed)
  BY DEF MetricsInv
<1>2. ASSUME Metrics!Calm(measured, windows[k]), \A s, o \in measured : s.rtt # NoRtt /\ Gap(s.rtt, o.rtt) < 10
      PROVE  ~ results[k].measured.detected
  BY <1>1, <1>2, ResultIs, CalmIsNormal, DetectedIs
<1>3. ASSUME Metrics!Calm(replayed, windows[k]), \A s, o \in replayed : s.rtt # NoRtt /\ Gap(s.rtt, o.rtt) < 10
      PROVE  ~ results[k].replayed.detected
  BY <1>1, <1>3, ResultIs, CalmIsNormal, DetectedIs
<1> QED
  BY <1>2, <1>3 DEF Gap

LEMMA OutageHolds == MetricsInv => Metrics!OutageIsMissed
<1> SUFFICES ASSUME MetricsInv, threshold = None, counts # None, NEW k \in DOMAIN results,
                    \E s \in measured : Metrics!Inside(s, windows[k]),
                    \A s \in measured : Metrics!Inside(s, windows[k]) => s.timeout,
                    Metrics!Calm(replayed, windows[k]),
                    \A s, o \in replayed : s.rtt # NoRtt /\ Gap(s.rtt, o.rtt) < 10
             PROVE  counts.missed > 0
  BY DEF Metrics!OutageIsMissed, Gap
<1>1. LogOK(measured) /\ LogOK(replayed)
  BY DEF MetricsInv
<1>2. ~ results[k].replayed.detected
  BY <1>1, ResultIs, CalmIsNormal, DetectedIs
<1>3. results[k].measured.detected
  <2>1. PICK s \in measured : Metrics!Inside(s, windows[k]) /\ s.timeout
    OBVIOUS
  <2>2. windows[k].start \in Int /\ windows[k].end \in Int /\ s.t \in Nat /\ Margin \in Nat
    BY <1>1, ResultIs, SamplesAre, LogsAssumption DEF LogsAssumption, Windows
  <2>3. s \in Metrics!Window(measured, windows[k])
    BY <2>1, <2>2 DEF Metrics!Window, Metrics!Inside
  <2>4. s \in Metrics!Abnormal(measured, windows[k])
    BY <2>1, <2>3, AbnormalIs
  <2> QED
    BY <2>4, ResultIs, DetectedIs
<1>4. results[k].measured.detected = TRUE /\ results[k].replayed.detected = FALSE
  BY <1>2, <1>3, ResultIs DEF Metrics!Summary
<1>5. k \in Having(TRUE, FALSE)
  BY <1>4 DEF Having
<1>6. IsFiniteSet(Having(TRUE, FALSE))
  <2>1. DOMAIN results = 1..Len(results) /\ Len(results) \in Nat
    BY DEF MetricsInv
  <2>2. IsFiniteSet(DOMAIN results)
    BY <2>1, FS_Interval
  <2>3. Having(TRUE, FALSE) \in SUBSET DOMAIN results
    BY DEF Having
  <2> QED
    BY <2>2, <2>3, FS_Subset
<1>7. Cardinality(Having(TRUE, FALSE)) \in Nat /\ Cardinality(Having(TRUE, FALSE)) # 0
  BY <1>5, <1>6, FS_CardinalityType, FS_EmptySet
<1>8. counts.missed = Cardinality(Having(TRUE, FALSE))
  BY DEF MetricsInv
<1> DEFINE n == Cardinality(Having(TRUE, FALSE))
<1>9. n \in Nat /\ n # 0 /\ counts.missed = n
  BY <1>7, <1>8
<1> HIDE DEF n
<1> QED
  BY <1>9

-----------------------------------------------------------------------------
(* A replay that is perfect.                                                *)

LEMMA EndsAre ==
  ASSUME NEW S \in SUBSET Int, IsFiniteSet(S), S # {}
  PROVE  /\ Metrics!Min(S) \in S /\ \A y \in S : Metrics!Min(S) <= y
         /\ Metrics!Max(S) \in S /\ \A y \in S : y <= Metrics!Max(S)
<1>1. PICK x \in S : \A y \in S : y <= x
  BY FiniteHasEnds
<1>2. PICK w \in S : \A y \in S : w <= y
  BY FiniteHasEnds
<1>3. \E z \in S : \A y \in S : z >= y
  BY <1>1
<1>4. Metrics!Max(S) \in S /\ \A y \in S : Metrics!Max(S) >= y
  BY <1>3 DEF Metrics!Max
<1>5. Metrics!Min(S) \in S /\ \A y \in S : Metrics!Min(S) <= y
  BY <1>2 DEF Metrics!Min
<1> QED
  BY <1>4, <1>5

\* The times at which a log is abnormal, and the samples with a round trip.
AbnormalTimes(log, e) == {s.t : s \in Metrics!Abnormal(log, e)}
Measured(log, e) == {s \in Metrics!Window(log, e) : s.rtt # NoRtt}
Peak(log, e) ==
  CHOOSE s \in Measured(log, e) : \A o \in Measured(log, e) : o.rtt < s.rtt \/ (o.rtt = s.rtt /\ s.t <= o.t)

LEMMA AbnormalInLog ==
  ASSUME NEW log, NEW e
  PROVE  Metrics!Abnormal(log, e) \in SUBSET Metrics!Window(log, e) /\ Metrics!Window(log, e) \in SUBSET log
<1>1. Metrics!Window(log, e) \in SUBSET log
  BY DEF Metrics!Window
<1>2. \A s \in Metrics!Abnormal(log, e) : s \in Metrics!Window(log, e)
  BY AbnormalIs
<1> QED
  BY <1>1, <1>2

LEMMA TimesAre ==
  ASSUME NEW log, LogOK(log), NEW S \in SUBSET log
  PROVE  {s.t : s \in S} \in SUBSET Int /\ IsFiniteSet({s.t : s \in S})
<1> DEFINE f == [s \in S |-> s.t]
<1>1. IsFiniteSet(S)
  BY FS_Subset DEF LogOK
<1>2. IsFiniteSet({f[s] : s \in S})
  BY <1>1, ImageIsFinite
<1>3. \A s \in S : s.t \in Int
  <2>1. \A s \in S : s \in log
    OBVIOUS
  <2> QED
    BY <2>1, SamplesAre
<1> QED
  BY <1>2, <1>3

\* The highest sample, the first of those where there are several.
LEMMA PeakIs ==
  ASSUME NEW log, LogOK(log), NEW e, Measured(log, e) # {}
  PROVE  Peak(log, e) \in Measured(log, e)
<1> DEFINE R == Measured(log, e)
           f == [s \in R |-> s.rtt]
           V == {f[s] : s \in R}
<1>1. R \in SUBSET log
  BY AbnormalInLog DEF Measured
<1>2. IsFiniteSet(R)
  BY <1>1, FS_Subset DEF LogOK
<1>3. \A s \in R : s.rtt \in Int /\ s.t \in Int
  <2>1. \A s \in R : s \in log /\ s.rtt # NoRtt
    BY <1>1 DEF Measured
  <2> QED
    BY <2>1, SamplesAre
<1>4. V \in SUBSET Int /\ IsFiniteSet(V) /\ V # {}
  BY <1>2, <1>3, ImageIsFinite
<1>5. PICK w \in V : \A v \in V : v <= w
  BY <1>4, FiniteHasEnds
<1> DEFINE T == {s \in R : s.rtt = w}
           U == {s.t : s \in T}
<1>6. U \in SUBSET Int /\ IsFiniteSet(U) /\ U # {}
  <2>1. T \in SUBSET log /\ T # {}
    BY <1>1, <1>5
  <2> HIDE DEF T
  <2> QED
    BY <2>1, TimesAre
<1>7. PICK u \in U : \A v \in U : u <= v
  BY <1>6, FiniteHasEnds
<1>8. PICK s \in T : u = s.t
  BY <1>7
<1>9. ASSUME NEW o \in R PROVE o.rtt < s.rtt \/ (o.rtt = s.rtt /\ s.t <= o.t)
  <2>1. o.rtt \in V /\ s.rtt = w
    BY <1>8
  <2>2. o.rtt <= w
    BY <1>5, <2>1
  <2>3. CASE o.rtt = w
    <3>1. o \in T
      BY <2>3
    <3>2. o.t \in U
      BY <3>1
    <3> QED
      BY <1>7, <1>8, <2>1, <2>3, <3>2
  <2>4. CASE o.rtt # w
    BY <1>3, <1>4, <2>1, <2>2, <2>4
  <2> QED
    BY <2>3, <2>4
<1>10. s \in R
  BY <1>8
<1> QED
  BY <1>9, <1>10 DEF Peak

Marks == {"start", "end", "duration", "peak", "peakTime"}

\* What is said of a window is a number where it is something.
LEMMA SummaryIs ==
  ASSUME NEW log, LogOK(log), NEW e
  PROVE  LET x == Metrics!Summary(log, e)
             T == AbnormalTimes(log, e)
         IN  /\ \A key \in Marks : x[key] \in Maybe(Int)
             /\ T # {} => x.start = Metrics!Min(T) /\ x.duration = Metrics!Max(T) - Metrics!Min(T)
<1> DEFINE x == Metrics!Summary(log, e)
           T == AbnormalTimes(log, e)
           R == Measured(log, e)
           p == Peak(log, e)
<1>1. T \in SUBSET Int /\ IsFiniteSet(T)
  <2>1. Metrics!Abnormal(log, e) \in SUBSET log
    BY AbnormalInLog
  <2> QED
    BY <2>1, TimesAre DEF AbnormalTimes
<1>2. T # {} => Metrics!Min(T) \in Int /\ Metrics!Max(T) \in Int
  BY <1>1, EndsAre
<1>3. R # {} => p.rtt \in Int /\ p.t \in Int
  <2> SUFFICES ASSUME R # {} PROVE p.rtt \in Int /\ p.t \in Int
    OBVIOUS
  <2>1. p \in R
    BY PeakIs
  <2>2. p \in log /\ p.rtt # NoRtt
    BY <2>1, AbnormalInLog DEF Measured
  <2> QED
    BY <2>2, SamplesAre
<1>4. x = [ detected |-> T # {},
            start |-> IF T # {} THEN Metrics!Min(T) ELSE None,
            end |-> IF T # {} THEN Metrics!Max(T) ELSE None,
            duration |-> IF T # {} THEN Metrics!Max(T) - Metrics!Min(T) ELSE None,
            peak |-> IF Metrics!Window(log, e) = {} THEN None ELSE IF R = {} THEN 0 ELSE p.rtt,
            peakTime |-> IF R = {} THEN None ELSE p.t ]
  BY Zenon DEF Metrics!Summary, AbnormalTimes, Measured, Peak
<1> HIDE DEF x, T, R, p
<1>5. /\ x.start = (IF T # {} THEN Metrics!Min(T) ELSE None)
      /\ x.end = (IF T # {} THEN Metrics!Max(T) ELSE None)
      /\ x.duration = (IF T # {} THEN Metrics!Max(T) - Metrics!Min(T) ELSE None)
      /\ x.peak = (IF Metrics!Window(log, e) = {} THEN None ELSE IF R = {} THEN 0 ELSE p.rtt)
      /\ x.peakTime = (IF R = {} THEN None ELSE p.t)
  BY <1>4
<1>6. x.start \in Maybe(Int) /\ x.end \in Maybe(Int) /\ x.duration \in Maybe(Int)
  BY <1>2, <1>5 DEF Maybe
<1>7. x.peak \in Maybe(Int) /\ x.peakTime \in Maybe(Int)
  BY <1>3, <1>5 DEF Maybe
<1>8. \A key \in Marks : x[key] \in Maybe(Int)
  BY <1>6, <1>7 DEF Marks
<1> QED
  BY <1>5, <1>8 DEF x, T

\* A sample is answered by itself.
LEMMA SameIsNearest ==
  ASSUME NEW log, LogOK(log), NEW R \in SUBSET log, NEW p \in R
  PROVE  Metrics!Nearest(p, R) = p
<1> DEFINE Best(r, o) == \/ Gap(r.t, p.t) < Gap(o.t, p.t)
                         \/ Gap(r.t, p.t) = Gap(o.t, p.t) /\ r.t <= o.t
           q == Metrics!Nearest(p, R)
<1>1. \A r \in R : r.t \in Nat /\ r \in log
  BY SamplesAre
<1>2. \A r \in R : Gap(r.t, p.t) \in Nat /\ (Gap(r.t, p.t) = r.t - p.t \/ Gap(r.t, p.t) = p.t - r.t)
  <2> SUFFICES ASSUME NEW r \in R
               PROVE  Gap(r.t, p.t) \in Nat /\ (Gap(r.t, p.t) = r.t - p.t \/ Gap(r.t, p.t) = p.t - r.t)
    OBVIOUS
  <2>1. r.t \in Int /\ p.t \in Int
    BY <1>1
  <2> QED
    BY <2>1, GapIs
<1>3. Gap(p.t, p.t) = 0
  BY <1>1, <1>2
<1>4. \A o \in R : Best(p, o)
  <2> SUFFICES ASSUME NEW o \in R PROVE Best(p, o)
    OBVIOUS
  <2> QED
    BY <1>1, <1>2, <1>3
<1>5. q = CHOOSE r \in R : \A o \in R : Best(r, o)
  BY DEF Metrics!Nearest, Gap
<1> HIDE DEF Best, q
<1>6. q \in R /\ Best(q, p)
  BY <1>4, <1>5
<1>7. q.t = p.t
  BY <1>1, <1>2, <1>3, <1>6 DEF Best
<1>8. q = p
  BY <1>1, <1>6, <1>7 DEF LogOK
<1> QED
  BY <1>8 DEF q

Answers(e, p) == {r \in Metrics!Window(replayed, e) : r.rtt # NoRtt /\ Metrics!Distance(r.t, p.t) <= Alignment}
Answered(e) == {p \in Measured(measured, e) : Answers(e, p) # {}}
Apart(e) == [p \in Answered(e) |-> Metrics!Distance(p.rtt, Metrics!Nearest(p, Answers(e, p)).rtt)]

\* A log has no error against itself.
LEMMA SelfAligned ==
  ASSUME MetricsInv, measured = replayed, NEW e
  PROVE  Metrics!AlignedErrors(e).absolute = 0
<1>0. LogOK(measured)
  BY DEF MetricsInv
<1>1. Metrics!AlignedErrors(e) = [points |-> Metrics!Cardinality(Answered(e)), absolute |-> Metrics!SumFunction(Apart(e))]
  BY Zenon DEF Metrics!AlignedErrors, Answers, Answered, Apart, Measured
<1>2. Metrics!SumFunction(Apart(e)) = SumFunctionOnSet(Apart(e), Answered(e))
  <2>1. DOMAIN Apart(e) = Answered(e)
    BY DEF Apart
  <2>2. Metrics!SumFunction(Apart(e)) = SumFunctionOnSet(Apart(e), DOMAIN Apart(e))
    BY DEF Metrics!SumFunction, Metrics!SumFunctionOnSet, Metrics!FoldFunctionOnSet, Metrics!MapThenFoldSet,
           SumFunctionOnSet, FoldFunctionOnSet, MapThenFoldSet
  <2> QED
    BY <2>1, <2>2
<1>3. Answered(e) \in SUBSET measured
  BY AbnormalInLog DEF Answered, Measured
<1>4. IsFiniteSet(Answered(e))
  BY <1>0, <1>3, FS_Subset DEF LogOK
<1>5. ASSUME NEW p \in Answered(e) PROVE Apart(e)[p] = 0
  <2>1. p \in Metrics!Window(measured, e) /\ p \in measured /\ p.rtt # NoRtt
    BY <1>3 DEF Answered, Measured
  <2>2. p.t \in Int /\ p.rtt \in Int
    BY <1>0, <2>1, SamplesAre
  <2>3. Metrics!Distance(p.t, p.t) = 0 /\ Metrics!Distance(p.rtt, p.rtt) = 0
    BY <2>2 DEF Metrics!Distance
  <2>4. p \in Answers(e, p)
    BY <2>1, <2>3, LogsAssumption DEF LogsAssumption, Answers
  <2>5. Answers(e, p) \in SUBSET measured
    BY AbnormalInLog DEF Answers
  <2>6. Metrics!Nearest(p, Answers(e, p)) = p
    BY <1>0, <2>4, <2>5, SameIsNearest
  <2> QED
    BY <2>3, <2>6 DEF Apart
<1>6. SumFunctionOnSet(Apart(e), Answered(e)) = 0
  BY <1>4, <1>5, SumZero
<1> QED
  BY <1>1, <1>2, <1>6

LEMMA ErrorsAre ==
  ASSUME MetricsInv, NEW k \in DOMAIN results, NEW key \in Marks
  PROVE  /\ DOMAIN results[k].errors = Marks
         /\ results[k].errors[key] =
              Metrics!Difference(Metrics!Summary(measured, windows[k]), Metrics!Summary(replayed, windows[k]), key)
<1>1. windows[k] \in Windows /\ results[k] = Evaluated[windows[k]]
  BY ResultIs
<1> DEFINE f == [m \in Marks |->
    Metrics!Difference(Metrics!Summary(measured, windows[k]), Metrics!Summary(replayed, windows[k]), m)]
<1>2. results[k].errors = f
  BY <1>1 DEF Evaluated, Marks
<1> QED
  BY <1>2

LEMMA PerfectHolds == MetricsInv => Metrics!PerfectReplayScores
<1> SUFFICES ASSUME MetricsInv, measured = replayed
             PROVE  /\ \A k \in DOMAIN results :
                         /\ results[k].aligned.absolute = 0
                         /\ \A e \in DOMAIN results[k].errors : results[k].errors[e] \in {0, None}
                    /\ counts # None => counts.missed = 0 /\ counts.spurious = 0
  BY DEF Metrics!PerfectReplayScores
<1>0. LogOK(measured)
  BY DEF MetricsInv
<1>1. ASSUME NEW k \in DOMAIN results PROVE results[k].aligned.absolute = 0
  BY ResultIs, SelfAligned
<1>2. ASSUME NEW k \in DOMAIN results, NEW key \in DOMAIN results[k].errors
      PROVE  results[k].errors[key] \in {0, None}
  <2> DEFINE x == Metrics!Summary(measured, windows[k])
             v == x[key]
  <2>1. key \in Marks
    <3>1. "start" \in Marks
      BY DEF Marks
    <3>2. DOMAIN results[k].errors = Marks
      BY <3>1, ErrorsAre
    <3> QED
      BY <1>2, <3>2
  <2>2. v \in Maybe(Int)
    BY <1>0, <2>1, SummaryIs
  <2>3. results[k].errors[key] = Metrics!Difference(x, x, key)
    BY <2>1, ErrorsAre
  <2>4. Metrics!Difference(x, x, key) = IF v = None THEN None ELSE v - v
    <3> HIDE DEF x
    <3> QED
      BY DEF Metrics!Difference
  <2> HIDE DEF x, v
  <2>5. v # None => v - v = 0
    BY <2>2 DEF Maybe
  <2> QED
    BY <2>3, <2>4, <2>5
<1>3. \A k \in DOMAIN results : results[k].measured = results[k].replayed
  BY ResultIs
<1>4. Having(TRUE, FALSE) = {} /\ Having(FALSE, TRUE) = {}
  BY <1>3 DEF Having
<1>5. ASSUME counts # None PROVE counts.missed = 0 /\ counts.spurious = 0
  <2>1. counts.missed = Cardinality({}) /\ counts.spurious = Cardinality({})
    BY <1>4, <1>5 DEF MetricsInv
  <2>2. Cardinality({}) = 0
    BY FS_EmptySet
  <2> QED
    BY <2>1, <2>2
<1> QED
  BY <1>1, <1>2, <1>5

-----------------------------------------------------------------------------
(* A replay that is late.                                                   *)

Moved(s, d) == [s EXCEPT !.t = @ + d]

LEMMA MovedIs ==
  ASSUME NEW log, LogOK(log), NEW s \in log, NEW d \in Int
  PROVE  Moved(s, d).t = s.t + d /\ Moved(s, d).rtt = s.rtt /\ Moved(s, d).timeout = s.timeout
<1>1. s \in [t : Nat, rtt : Int \cup {NoRtt}, timeout : BOOLEAN]
  BY SamplesAre
<1> QED
  BY <1>1 DEF Moved

\* A calm log that is moved is calm before the event.
LEMMA MovedIsCalm ==
  ASSUME NEW log, LogOK(log), NEW e \in Windows, Metrics!Calm(log, e), NEW d \in Nat,
         NEW moved, LogOK(moved), \A o \in moved : \E s \in log : o = Moved(s, d),
         Earlier(moved, e.start) # {}
  PROVE  /\ CalmBefore(moved, e.start)
         /\ \A o \in Earlier(moved, e.start) : \E s \in Earlier(log, e.start) : o.rtt = s.rtt
<1>1. ASSUME NEW o \in Earlier(moved, e.start)
      PROVE  \E s \in Earlier(log, e.start) : o.rtt = s.rtt
  <2>1. PICK s \in log : o = Moved(s, d)
    BY DEF Earlier
  <2>2. o.t = s.t + d /\ o.rtt = s.rtt
    BY <2>1, MovedIs
  <2>3. o.t < e.start /\ e.start \in Int /\ s.t \in Nat
    BY SamplesAre DEF Earlier, Windows
  <2>4. s.t < e.start
    BY <2>2, <2>3
  <2> QED
    BY <2>2, <2>4 DEF Earlier
<1>2. CalmBefore(log, e.start)
  BY CalmSamples
<1> QED
  BY <1>1, <1>2 DEF CalmBefore

\* A sample that is as near as the calm ones, or far above them, is so in a log
\* and in the one that is late.
LEMMA LateSample ==
  ASSUME threshold = None, NEW log, LogOK(log), NEW e \in Windows, Metrics!Calm(log, e), Metrics!Decisive(log, e),
         NEW d \in 1..Margin, NEW late, LogOK(late), late = {Moved(s, d) : s \in log},
         Earlier(late, e.start) # {}, NEW s \in log
  PROVE  s \in Metrics!Abnormal(log, e) <=> Moved(s, d) \in Metrics!Abnormal(late, e)
<1> DEFINE m == Moved(s, d)
<1>0. d \in Nat /\ d <= Margin /\ Margin \in Nat /\ e.start \in Int /\ e.end \in Int
  BY LogsAssumption DEF LogsAssumption, Windows
<1>1. m \in late
  OBVIOUS
<1>2. m.t = s.t + d /\ m.rtt = s.rtt /\ m.timeout = s.timeout
  BY <1>0, MovedIs
<1> HIDE DEF m
<1>3. /\ CalmBefore(log, e.start) /\ Earlier(log, e.start) \in SUBSET Outside(log, e)
      /\ \A x \in Outside(log, e) : x.rtt \in Int /\ ~ x.timeout
      /\ \A x, y \in Outside(log, e) : Gap(x.rtt, y.rtt) < 10
  BY CalmSamples
<1>4. /\ CalmBefore(late, e.start)
      /\ \A o \in Earlier(late, e.start) : \E x \in Earlier(log, e.start) : o.rtt = x.rtt
  <2>1. d \in Nat
    BY <1>0
  <2>2. \A o \in late : \E x \in log : o = Moved(x, d)
    OBVIOUS
  <2> QED
    BY <2>1, <2>2, MovedIsCalm
<1>5. ASSUME s.rtt \in Int, \A o \in Outside(log, e) : Gap(s.rtt, o.rtt) < 10
      PROVE  s \notin Metrics!Abnormal(log, e) /\ m \notin Metrics!Abnormal(late, e)
  <2>1. s \notin Metrics!Abnormal(log, e)
    <3>1. \A o \in Earlier(log, e.start) : Gap(s.rtt, o.rtt) < 10
      BY <1>3, <1>5
    <3> QED
      BY <1>3, <1>5, <3>1, NearIsNormal
  <2>2. m \notin Metrics!Abnormal(late, e)
    <3>1. \A o \in Earlier(late, e.start) : Gap(m.rtt, o.rtt) < 10
      <4> SUFFICES ASSUME NEW o \in Earlier(late, e.start) PROVE Gap(m.rtt, o.rtt) < 10
        OBVIOUS
      <4>1. PICK x \in Earlier(log, e.start) : o.rtt = x.rtt
        BY <1>4
      <4>2. Gap(s.rtt, x.rtt) < 10
        BY <1>3, <1>5
      <4> QED
        BY <1>2, <4>1, <4>2
    <3>2. m.rtt \in Int
      BY <1>2, <1>5
    <3> QED
      BY <1>1, <1>4, <3>1, <3>2, NearIsNormal
  <2> QED
    BY <2>1, <2>2
<1>6. ASSUME ~ Metrics!Inside(s, e) PROVE s \notin Metrics!Abnormal(log, e) /\ m \notin Metrics!Abnormal(late, e)
  <2>1. s \in Outside(log, e)
    BY <1>6 DEF Outside
  <2>2. s.rtt \in Int /\ \A o \in Outside(log, e) : Gap(s.rtt, o.rtt) < 10
    BY <1>3, <2>1
  <2> QED
    BY <1>5, <2>2
<1>7. ASSUME Metrics!Inside(s, e) PROVE s \in Metrics!Window(log, e) /\ m \in Metrics!Window(late, e)
  <2>1. s.t \in Nat /\ e.start <= s.t /\ s.t <= e.end
    BY <1>7, SamplesAre DEF Metrics!Inside
  <2>2. e.start - Margin <= s.t /\ s.t <= e.end + Margin
    BY <1>0, <2>1
  <2>3. e.start - Margin <= m.t /\ m.t <= e.end + Margin
    BY <1>0, <1>2, <2>1
  <2> QED
    BY <1>1, <2>2, <2>3 DEF Metrics!Window
<1>8. ASSUME Metrics!Inside(s, e), s.rtt = NoRtt
      PROVE  s \in Metrics!Abnormal(log, e) <=> m \in Metrics!Abnormal(late, e)
  BY <1>2, <1>7, <1>8, AbnormalIs
<1>9. ASSUME Metrics!Inside(s, e), s.rtt # NoRtt
      PROVE  s \in Metrics!Abnormal(log, e) <=> m \in Metrics!Abnormal(late, e)
  <2>1. s.rtt \in Int
    BY <1>9, SamplesAre
  <2>2. \A o \in Outside(log, e) : Gap(s.rtt, o.rtt) < 10 \/ s.rtt > o.rtt + 40
    BY <1>9 DEF Metrics!Decisive, Outside, Gap
  <2>3. CASE \A o \in Outside(log, e) : s.rtt > o.rtt + 40
    <3>1. \A o \in Earlier(log, e.start) : s.rtt > o.rtt + 40
      BY <1>3, <2>3
    <3>2. \A o \in Earlier(late, e.start) : m.rtt > o.rtt + 40
      <4> SUFFICES ASSUME NEW o \in Earlier(late, e.start) PROVE m.rtt > o.rtt + 40
        OBVIOUS
      <4>1. PICK x \in Earlier(log, e.start) : o.rtt = x.rtt
        BY <1>4
      <4> QED
        BY <1>2, <3>1, <4>1
    <3>3. s \in Metrics!Abnormal(log, e)
      BY <1>3, <1>7, <1>9, <2>1, <3>1, FarIsAbnormal
    <3>4. m \in Metrics!Abnormal(late, e)
      <4>1. m \in Metrics!Window(late, e) /\ m.rtt \in Int
        BY <1>2, <1>7, <1>9, <2>1
      <4> QED
        BY <1>4, <3>2, <4>1, FarIsAbnormal
    <3> QED
      BY <3>3, <3>4
  <2>4. CASE ~ \A o \in Outside(log, e) : s.rtt > o.rtt + 40
    <3>1. PICK o \in Outside(log, e) : Gap(s.rtt, o.rtt) < 10
      BY <2>2, <2>4
    <3>2. ASSUME NEW x \in Outside(log, e) PROVE Gap(s.rtt, x.rtt) < 10
      <4>1. o.rtt \in Int /\ x.rtt \in Int /\ Gap(x.rtt, o.rtt) < 10
        BY <1>3
      <4>2. s.rtt - o.rtt <= Gap(s.rtt, o.rtt) /\ o.rtt - x.rtt <= Gap(x.rtt, o.rtt)
            /\ Gap(s.rtt, o.rtt) \in Nat /\ Gap(x.rtt, o.rtt) \in Nat
        BY <2>1, <4>1, GapIs
      <4>3. s.rtt < x.rtt + 20
        BY <2>1, <3>1, <4>1, <4>2
      <4>4. ~ (s.rtt > x.rtt + 40)
        BY <2>1, <4>1, <4>3
      <4> QED
        BY <2>2, <4>4
    <3> QED
      BY <1>5, <2>1, <3>2
  <2> QED
    BY <2>3, <2>4
<1> QED
  BY <1>6, <1>8, <1>9 DEF m

\* What is later by so much has ends that are.
LEMMA EndsMove ==
  ASSUME NEW S \in SUBSET Int, IsFiniteSet(S), S # {}, NEW d \in Int,
         NEW T \in SUBSET Int, IsFiniteSet(T), T = {t + d : t \in S}
  PROVE  /\ Metrics!Min(S) \in Int /\ Metrics!Max(S) \in Int
         /\ Metrics!Min(T) = Metrics!Min(S) + d /\ Metrics!Max(T) = Metrics!Max(S) + d
<1> DEFINE a == Metrics!Min(S)
           b == Metrics!Max(S)
           x == Metrics!Min(T)
           y == Metrics!Max(T)
<1>1. a \in S /\ b \in S /\ \A s \in S : a <= s /\ s <= b
  BY EndsAre
<1>2. T # {}
  OBVIOUS
<1>3. x \in T /\ y \in T /\ \A t \in T : x <= t /\ t <= y
  BY <1>2, EndsAre
<1> HIDE DEF a, b, x, y
<1>4. PICK u \in S, v \in S : x = u + d /\ y = v + d
  BY <1>3
<1>5. a + d \in T /\ b + d \in T
  BY <1>1
<1>6. x <= a + d /\ b + d <= y /\ a <= u /\ v <= b
  BY <1>1, <1>3, <1>4, <1>5
<1>7. a \in Int /\ b \in Int /\ x \in Int /\ y \in Int /\ u \in Int /\ v \in Int
  BY <1>1, <1>3
<1>8. x = a + d /\ y = b + d
  BY <1>4, <1>6, <1>7
<1> QED
  BY <1>7, <1>8 DEF a, b, x, y

LEMMA LateHolds == MetricsInv => Metrics!LateReplaySeen
<1> SUFFICES ASSUME MetricsInv, threshold = None, NEW d \in 1..Margin, NEW k \in DOMAIN results,
                    Metrics!Late(d), Metrics!Calm(measured, windows[k]), Metrics!Decisive(measured, windows[k]),
                    \E s \in replayed : s.t < windows[k].start, results[k].measured.detected
             PROVE  results[k].errors["start"] = d /\ results[k].errors["duration"] = 0
  BY DEF Metrics!LateReplaySeen
<1> DEFINE e == windows[k]
           S == AbnormalTimes(measured, e)
           T == AbnormalTimes(replayed, e)
<1>1. e \in Windows /\ LogOK(measured) /\ LogOK(replayed) /\ results[k].measured = Metrics!Summary(measured, e)
  BY ResultIs DEF MetricsInv
<1>2. replayed = {Moved(s, d) : s \in measured} /\ Earlier(replayed, e.start) # {}
  BY DEF Metrics!Late, Moved, Earlier
<1>3. d \in Int
  BY LogsAssumption DEF LogsAssumption
<1>4. ASSUME NEW s \in measured
      PROVE  s \in Metrics!Abnormal(measured, e) <=> Moved(s, d) \in Metrics!Abnormal(replayed, e)
  BY <1>1, <1>2, LateSample
<1>5. \A s \in measured : Moved(s, d).t = s.t + d
  BY <1>1, <1>3, MovedIs
<1>6. Metrics!Abnormal(measured, e) \in SUBSET measured /\ Metrics!Abnormal(replayed, e) \in SUBSET replayed
  BY AbnormalInLog
<1>7. S \in SUBSET Int /\ IsFiniteSet(S) /\ T \in SUBSET Int /\ IsFiniteSet(T)
  BY <1>1, <1>6, TimesAre DEF AbnormalTimes
<1>8. S # {}
  BY <1>1, DetectedIs DEF AbnormalTimes
<1> HIDE DEF e
<1>9. T = {t + d : t \in S}
  <2>1. ASSUME NEW t \in T PROVE t \in {u + d : u \in S}
    <3>1. PICK o \in Metrics!Abnormal(replayed, e) : t = o.t
      BY DEF AbnormalTimes
    <3>2. PICK s \in measured : o = Moved(s, d)
      BY <1>2, <1>6
    <3>3. s.t \in S
      BY <1>4, <3>1, <3>2 DEF AbnormalTimes
    <3> QED
      BY <1>5, <3>1, <3>2, <3>3
  <2>2. ASSUME NEW u \in S PROVE u + d \in T
    <3>1. PICK s \in Metrics!Abnormal(measured, e) : u = s.t
      BY DEF AbnormalTimes
    <3>2. Moved(s, d) \in Metrics!Abnormal(replayed, e) /\ Moved(s, d).t = u + d
      BY <1>4, <1>5, <1>6, <3>1
    <3> QED
      BY <3>2 DEF AbnormalTimes
  <2> HIDE DEF S, T
  <2> QED
    BY <2>1, <2>2
<1> DEFINE m == Metrics!Summary(measured, e)
           r == Metrics!Summary(replayed, e)
           a == Metrics!Min(S)
           b == Metrics!Max(S)
<1>10. T # {}
  BY <1>8, <1>9
<1>11. /\ m.start = a /\ m.duration = b - a
       /\ r.start = Metrics!Min(T) /\ r.duration = Metrics!Max(T) - Metrics!Min(T)
  BY <1>1, <1>8, <1>10, SummaryIs
<1>12. a \in Int /\ b \in Int /\ Metrics!Min(T) = a + d /\ Metrics!Max(T) = b + d
  <2> HIDE DEF S, T
  <2> QED
    BY <1>3, <1>7, <1>8, <1>9, EndsMove
<1>13. results[k].errors["start"] = Metrics!Difference(m, r, "start")
       /\ results[k].errors["duration"] = Metrics!Difference(m, r, "duration")
  <2>1. "start" \in Marks /\ "duration" \in Marks
    BY DEF Marks
  <2> QED
    BY <2>1, ErrorsAre DEF e
<1> HIDE DEF m, r, a, b, S, T
<1>14. /\ m.start \in Int /\ r.start \in Int /\ m.duration \in Int /\ r.duration \in Int
       /\ r.start - m.start = d /\ r.duration - m.duration = 0
  BY <1>3, <1>11, <1>12
<1>15. m.start # None /\ r.start # None /\ m.duration # None /\ r.duration # None
  BY <1>14, NoneAssumption DEF NoneAssumption
<1>16. Metrics!Difference(m, r, "start") = r.start - m.start /\ Metrics!Difference(m, r, "duration") = r.duration - m.duration
  BY <1>15 DEF Metrics!Difference
<1> QED
  BY <1>13, <1>14, <1>16

\* For every pair of logs and of series: a log has no error against itself, one
\* that is late by up to the margin shows as late by its delay and as long as it
\* was, jitter is no event, an outage that was not reproduced is counted as
\* missed (evaluate_events, summarize_window, baseline_threshold), a measured
\* bin is paired with a nearest one of the replay wherever one is in reach, and
\* every point is in one bin (aggregate_series_mean, align_by_nearest).
THEOREM ScoresAreFair == Spec => []ScoresFair
<1> DEFINE Inv == AveragesInv /\ PairsInv /\ MetricsInv
<1>1. Init => Inv
  BY AveragesInit, PairsInit, MetricsInit
<1>2. Inv /\ [Next]_vars => Inv'
  BY NextParts, AveragesNext, PairsNext, MetricsNext
<1>3. Inv => ScoresFair
  BY PerfectHolds, LateHolds, JitterHolds, OutageHolds, PairsHold, PointsCount DEF ScoresFair
<1> QED
  BY <1>1, <1>2, <1>3, PTL DEF Spec
=============================================================================
