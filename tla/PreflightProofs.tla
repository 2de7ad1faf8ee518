---------------------------- MODULE PreflightProofs ----------------------------
(***************************************************************************)
(* Proofs about the linkage engine (LinkageEngine.tla) and the sessions    *)
(* that use it (PreflightSession.tla), for all windows and thresholds,     *)
(* snapshots and intents.                                                  *)
(***************************************************************************)
EXTENDS PreflightSession, FiniteSetTheorems, SequenceTheorems, TLAPS

LEMMA MaxOfTwo ==
  ASSUME NEW a \in Nat, NEW b \in Nat
  PROVE  Max({a, b}) \in {a, b} /\ a <= Max({a, b}) /\ b <= Max({a, b})
<1>1. \E x \in {a, b} : \A y \in {a, b} : x >= y
  OBVIOUS
<1>. QED
  BY <1>1 DEF Max

---------------------------------------------------------------------------
(* Types *)

(* What an answer is made of, whatever it is about *)
LEMMA AnswerShape ==
  ASSUME NEW i, NEW at, NEW e
  PROVE  LET r == Evaluate(i, at, e)
         IN /\ r.at = at
            /\ r.decision = DecisionFor(r.band)
            /\ r.recommendation.kind \in Kinds
            /\ r # None
<1>. DEFINE r == Evaluate(i, at, e)
<1>1. Recommendation(i, at, e).kind \in Kinds
  <2>1. \A k, a : Recommend(k, a).kind = k
    BY DEF Recommend
  <2>2. {"NONE", "CHANGE_AMOUNT", "WAIT", "NO_SAFER_EXECUTION"} = Kinds
    BY DEF Kinds
  <2>. QED
    BY <2>1, <2>2, Zenon DEF Recommendation
<1>2. r = [at |-> at, signals |-> Signals(i, at, e), band |-> BandFor(Signals(i, at, e)),
           decision |-> DecisionFor(BandFor(Signals(i, at, e))),
           healthy |-> Cohort(i, i.amount, at, e).healthy,
           recommendation |-> Recommendation(i, at, e)]
  BY Zenon DEF Evaluate
<1>3. r # None
  <2>1. "band" \in DOMAIN r /\ "band" \notin DOMAIN None
    BY <1>2 DEF None
  <2>. QED
    BY <2>1
<1>. QED
  BY <1>1, <1>2, <1>3

(* The intents that a session asks about are the user's, and permit their    *)
(* own amount; an exact one permits no other.                                *)
Asked(i) ==
  /\ i \in Intent
  /\ i.amount \in i.min..i.max
  /\ i.mode = "exact" => i.min = i.amount /\ i.max = i.amount
  /\ i.account = User /\ i.recipient = User

TypeInv == TypeOK /\ Asked(intent) /\ now \in Nat

LEMMA InitTypes == Init => TypeInv
<1>. SUFFICES ASSUME Init PROVE TypeInv
  OBVIOUS
<1>1. PICK s \in Sessions : evidence = s[1] /\ intent = s[2]
  BY DEF Init
<1>2. evidence \in Snapshot /\ intent \in Intent
  BY <1>1, SessionAssumption
<1>3. Asked(intent)
  BY <1>1, <1>2, SessionAssumption DEF Asked
<1>4. now = StartTime /\ StartTime \in Nat /\ MaxTime \in Nat /\ MaxArrivals \in Nat
  BY SessionAssumption DEF Init
<1>5. now \in StartTime..Max({StartTime, MaxTime})
  BY <1>4, MaxOfTwo
<1>6. arrivals \in 0..MaxArrivals /\ stage = "PROPOSING" /\ result = None
  BY <1>4 DEF Init
<1>. QED
  BY <1>2, <1>3, <1>4, <1>5, <1>6 DEF TypeInv, TypeOK, Asked

(* Both ways to ask keep the intent what it must be. *)
LEMMA ExactIsAsked ==
  ASSUME TypeInv, NEW amount \in Amounts
  PROVE  Asked(Exact(amount)) /\ Exact(amount).mode = "exact"
<1>1. amount \in Nat /\ now + PageDeadline \in Nat
  BY SessionAssumption DEF TypeInv
<1>2. intent \in Intent /\ intent.account = User /\ intent.recipient = User
  BY DEF TypeInv, Asked
<1>3. Exact(amount) \in Intent
  BY <1>1, <1>2 DEF Exact, Intent
<1>4. LET i == Exact(amount)
      IN /\ i.action = intent.action /\ i.token = intent.token
         /\ i.account = User /\ i.recipient = User
         /\ i.mode = "exact" /\ i.amount = amount /\ i.min = amount /\ i.max = amount
  BY <1>2 DEF Exact, Intent
<1>5. amount \in amount..amount
  BY <1>1
<1>. QED
  BY <1>3, <1>4, <1>5 DEF Asked

LEMMA DatedIsAsked ==
  ASSUME TypeInv
  PROVE  Asked([intent EXCEPT !.deadline = now + @])
BY DEF TypeInv, Asked, Intent

LEMMA AnswerTypes ==
  ASSUME TypeInv, NEW i, Asked(i), Answer(i), stage' \in {"RATED", "FINAL"},
         stage' = "FINAL" => i.mode = "exact"
  PROVE  TypeInv'
<1>1. /\ result'.at = now
      /\ result'.decision = DecisionFor(result'.band)
      /\ result'.recommendation.kind \in Kinds
      /\ result' # None
  BY AnswerShape DEF Answer
<1>2. now \in StartTime..now
  BY SessionAssumption DEF TypeInv, TypeOK
<1>. QED
  BY <1>1, <1>2 DEF TypeInv, TypeOK, Answer, Asked, None

(* A snapshot with one more event *)
LEMMA AppendUse ==
  ASSUME NEW e \in Snapshot, NEW o \in Observation
  PROVE  /\ [e EXCEPT !.deposits = Append(@, o)] \in Snapshot
         /\ [e EXCEPT !.withdrawals = Append(@, o)] \in Snapshot
<1>1. /\ Append(e.deposits, o) \in Seq(Observation)
      /\ Append(e.withdrawals, o) \in Seq(Observation)
  BY DEF Snapshot
<1>. QED
  BY <1>1 DEF Snapshot

LEMMA AppendRegistration ==
  ASSUME NEW e \in Snapshot, NEW r \in [timestamp : Nat, actor : Accounts]
  PROVE  [e EXCEPT !.registrations = Append(@, r)] \in Snapshot
<1>1. Append(e.registrations, r) \in Seq([timestamp : Nat, actor : Accounts])
  BY DEF Snapshot
<1>. QED
  BY <1>1 DEF Snapshot

LEMMA ArrivalTypes ==
  ASSUME TypeInv, NEW e \in Snapshot, Arrive(e)
  PROVE  TypeInv'
BY SessionAssumption DEF TypeInv, TypeOK, Arrive, Asked, None

LEMMA NextTypes == TypeInv /\ [Next]_vars => TypeInv'
<1>. SUFFICES ASSUME TypeInv, [Next]_vars PROVE TypeInv'
  OBVIOUS
<1>1. CASE Tick
  BY <1>1, SessionAssumption, MaxOfTwo DEF Tick, TypeInv, TypeOK, Asked, None
<1>2. ASSUME NEW actor \in Actors, NEW amount \in Amounts, Deposit(actor, amount) \/ Withdraw(actor, amount)
      PROVE  TypeInv'
  <2>1. Event(actor, amount) \in Observation
    BY SessionAssumption DEF Event, Observation, TypeInv, Asked, Intent
  <2>2. /\ [evidence EXCEPT !.deposits = Append(@, Event(actor, amount))] \in Snapshot
        /\ [evidence EXCEPT !.withdrawals = Append(@, Event(actor, amount))] \in Snapshot
    BY <2>1, AppendUse DEF TypeInv, TypeOK
  <2>. QED
    BY <1>2, <2>2, ArrivalTypes DEF Deposit, Withdraw
<1>3. ASSUME NEW actor \in Actors \cup {User}, Register(actor)
      PROVE  TypeInv'
  <2>1. [timestamp |-> now, actor |-> actor] \in [timestamp : Nat, actor : Accounts]
    BY SessionAssumption DEF TypeInv
  <2>2. [evidence EXCEPT !.registrations = Append(@, [timestamp |-> now, actor |-> actor])] \in Snapshot
    BY <2>1, AppendRegistration DEF TypeInv, TypeOK
  <2>. QED
    BY <1>3, <2>2, ArrivalTypes DEF Register
<1>4. CASE Propose
  BY <1>4, DatedIsAsked, AnswerTypes DEF Propose
<1>5. CASE Recheck
  BY <1>5, AnswerTypes DEF Recheck, TypeInv
<1>6. ASSUME NEW amount \in Amounts, PickFromCover(amount) \/ Choose(amount)
      PROVE  TypeInv'
  BY <1>6, ExactIsAsked, AnswerTypes DEF PickFromCover, Choose
<1>7. CASE UNCHANGED vars
  BY <1>7 DEF vars, TypeInv, TypeOK, Asked, None
<1>. QED
  BY <1>1, <1>2, <1>3, <1>4, <1>5, <1>6, <1>7 DEF Next

LEMMA TypeInvariant == Spec => []TypeInv
BY InitTypes, NextTypes, PTL DEF Spec

(* Every part of the session keeps its type.                                 *)
THEOREM SessionTypes == Spec => []TypeOK
<1>1. TypeInv => TypeOK
  BY DEF TypeInv
<1>. QED
  BY TypeInvariant, <1>1, PTL
---------------------------------------------------------------------------
(* Least elements, counting and renaming *)

(* A strict order on a finite set has a minimal element. *)
LEMMA MinimalExists ==
  ASSUME NEW S, IsFiniteSet(S), S # {}, NEW R,
         \A x \in S : <<x, x>> \notin R,
         \A x, y, z \in S : <<x, y>> \in R /\ <<y, z>> \in R => <<x, z>> \in R
  PROVE  \E x \in S : \A y \in S : <<y, x>> \notin R
<1>. DEFINE Below(t) == {u \in S : <<u, t>> \in R}
            Tails == {Below(t) : t \in S}
<1>2. IsWellFoundedOn(StrictSubsetOrdering(S), SUBSET S)
  BY FS_StrictSubsetOrderingWellFounded, FS_FiniteSubsetsOfFinite
<1>3. Tails \subseteq SUBSET S /\ Tails # {}
  <2>1. \A t \in S : Below(t) \in SUBSET S
    OBVIOUS
  <2>. HIDE DEF Below
  <2>. QED
    BY <2>1
<1>4. PICK least \in Tails : \A T \in Tails : <<T, least>> \notin StrictSubsetOrdering(S)
  <2>. HIDE DEF Tails
  <2>. DEFINE Q == StrictSubsetOrdering(S)
              W == SUBSET S
  <2>1. IsWellFoundedOn(Q, W) /\ Tails \subseteq W /\ Tails # {}
    BY <1>2, <1>3
  <2>. HIDE DEF Q, W
  <2>2. \E x \in Tails : \A y \in Tails : ~ (<<y, x>> \in Q)
    BY <2>1, WFMin
  <2>. QED
    BY <2>2 DEF Q
<1>5. PICK t \in S : least = Below(t)
  OBVIOUS
<1>6. ASSUME NEW u \in S, <<u, t>> \in R PROVE FALSE
  <2>1. Below(u) \subseteq Below(t) /\ u \notin Below(u) /\ u \in Below(t)
    BY <1>6
  <2>2. <<Below(u), Below(t)>> \in StrictSubsetOrdering(S)
    BY <2>1 DEF StrictSubsetOrdering
  <2>. QED
    BY <2>2, <1>4, <1>5
<1>. QED
  BY <1>6

LEMMA GreatestExists ==
  ASSUME NEW S \in SUBSET Int, IsFiniteSet(S), S # {}
  PROVE  /\ Max(S) \in S /\ \A y \in S : y <= Max(S)
         /\ Min(S) \in S /\ \A y \in S : Min(S) <= y
<1>1. \E x \in S : \A y \in S : x >= y
  <2>. DEFINE R == {p \in S \X S : p[1] > p[2]}
  <2>1. \A x, y \in S : <<x, y>> \in R <=> x > y
    OBVIOUS
  <2>2. \A x \in S : <<x, x>> \notin R
    BY <2>1
  <2>3. \A x, y, z \in S : <<x, y>> \in R /\ <<y, z>> \in R => <<x, z>> \in R
    BY <2>1
  <2>. HIDE DEF R
  <2>4. \E x \in S : \A y \in S : <<y, x>> \notin R
    BY <2>2, <2>3, MinimalExists
  <2>5. \A x, y \in S : ~(y > x) => x >= y
    OBVIOUS
  <2>. QED
    BY <2>1, <2>4, <2>5
<1>2. \E x \in S : \A y \in S : x <= y
  <2>. DEFINE R == {p \in S \X S : p[1] < p[2]}
  <2>1. \A x, y \in S : <<x, y>> \in R <=> x < y
    OBVIOUS
  <2>2. \A x \in S : <<x, x>> \notin R
    BY <2>1
  <2>3. \A x, y, z \in S : <<x, y>> \in R /\ <<y, z>> \in R => <<x, z>> \in R
    BY <2>1
  <2>. HIDE DEF R
  <2>4. \E x \in S : \A y \in S : <<y, x>> \notin R
    BY <2>2, <2>3, MinimalExists
  <2>5. \A x, y \in S : ~(y < x) => x <= y
    OBVIOUS
  <2>. QED
    BY <2>1, <2>4, <2>5
<1>. QED
  BY <1>1, <1>2 DEF Max, Min

(* p renames the positions D to others, at which everything is the same. *)
Renames(p, D, s, t) ==
  /\ \A i, j \in D : p[i] = p[j] => i = j
  /\ \A i \in D : t[p[i]] = s[i]

Image(p, D) == {p[i] : i \in D}

LEMMA ImageSize ==
  ASSUME NEW p, NEW D, IsFiniteSet(D), \A i, j \in D : p[i] = p[j] => i = j
  PROVE  IsFiniteSet(Image(p, D)) /\ Cardinality(Image(p, D)) = Cardinality(D)
<1>. DEFINE f == [i \in D |-> p[i]]
<1>1. f \in Bijection(D, Image(p, D))
  BY DEF Image, Bijection, Injection, Surjection, IsInjective
<1>2. ExistsBijection(D, Image(p, D))
  BY <1>1 DEF ExistsBijection
<1>. QED
  BY <1>2, FS_Bijection

(* The order of the timestamps depends on how many there are up to each.     *)
LEMMA BurstRenamed ==
  ASSUME NEW p, NEW D, IsFiniteSet(D), NEW s, NEW t, Renames(p, D, s, t)
  PROVE  MaximumBurst(TimesOf(s, D)) = MaximumBurst(TimesOf(t, Image(p, D)))
<1>. DEFINE v == TimesOf(s, D)
            w == TimesOf(t, Image(p, D))
<1>1. DOMAIN v = D /\ DOMAIN w = Image(p, D)
  BY DEF TimesOf
<1>2. \A i \in D : p[i] \in Image(p, D) /\ w[p[i]] = v[i]
  BY DEF Image, TimesOf, Renames
<1>3. Cardinality(DOMAIN v) = Cardinality(DOMAIN w)
  BY <1>1, ImageSize DEF Renames
<1>4. Range(v) = Range(w)
  <2>. HIDE DEF v, w
  <2>1. \A x \in Range(v) : \E i \in D : x = w[p[i]] /\ p[i] \in DOMAIN w
    BY <1>1, <1>2 DEF Range
  <2>2. \A x \in Range(w) : \E i \in D : x = v[i] /\ i \in DOMAIN v
    BY <1>1, <1>2 DEF Range, Image
  <2>. QED
    BY <2>1, <2>2 DEF Range
<1>5. ASSUME NEW x PROVE Cardinality(UpTo(v, x)) = Cardinality(UpTo(w, x))
  <2>. HIDE DEF v, w
  <2>1. UpTo(w, x) = Image(p, UpTo(v, x))
    BY <1>1, <1>2 DEF UpTo, Image
  <2>2. UpTo(v, x) \subseteq D
    BY <1>1 DEF UpTo
  <2>3. IsFiniteSet(UpTo(v, x))
    BY <2>2, FS_Subset
  <2>. QED
    BY <2>1, <2>2, <2>3, ImageSize DEF Renames
<1>6. Ordered(v) = Ordered(w)
  <2>. HIDE DEF v, w
  <2>. DEFINE f == [k \in 1..Cardinality(DOMAIN v) |->
                     Min({x \in Range(v) : k <= Cardinality(UpTo(v, x))})]
              g == [k \in 1..Cardinality(DOMAIN w) |->
                     Min({x \in Range(w) : k <= Cardinality(UpTo(w, x))})]
  <2>1. \A k : {x \in Range(v) : k <= Cardinality(UpTo(v, x))} = {x \in Range(w) : k <= Cardinality(UpTo(w, x))}
    BY <1>4, <1>5
  <2>2. f = g
    BY <1>3, <2>1
  <2>. QED
    BY <2>2 DEF Ordered
<1>. QED
  BY <1>6 DEF MaximumBurst

LEMMA FailuresRenamed ==
  ASSUME NEW p, NEW D, IsFiniteSet(D), NEW s, NEW t, Renames(p, D, s, t), NEW L \in SUBSET D
  PROVE  /\ Cardinality(L) = Cardinality(Image(p, L))
         /\ Failures(s, L, D) = Failures(t, Image(p, L), Image(p, D))
<1>1. IsFiniteSet(L)
  BY FS_Subset
<1>2. Cardinality(L) = Cardinality(Image(p, L)) /\ Cardinality(D) = Cardinality(Image(p, D))
  BY <1>1, ImageSize DEF Renames
<1>3. ActorsOf(s, L) = ActorsOf(t, Image(p, L))
  BY DEF ActorsOf, Image, Renames
<1>4. DaysOf(s, D) = DaysOf(t, Image(p, D))
  BY DEF DaysOf, Image, Renames
<1>5. TopCount(s, L) = TopCount(t, Image(p, L))
  <2>1. ASSUME NEW a PROVE Cardinality(UsesBy(s, L, a)) = Cardinality(UsesBy(t, Image(p, L), a))
    <3>1. UsesBy(t, Image(p, L), a) = Image(p, UsesBy(s, L, a))
      BY DEF UsesBy, Image, Renames
    <3>2. UsesBy(s, L, a) \subseteq L
      BY DEF UsesBy
    <3>3. IsFiniteSet(UsesBy(s, L, a))
      BY <1>1, <3>2, FS_Subset
    <3>. QED
      BY <3>1, <3>2, <3>3, ImageSize DEF Renames
  <2>2. {Cardinality(UsesBy(s, L, a)) : a \in ActorsOf(s, L)}
        = {Cardinality(UsesBy(t, Image(p, L), a)) : a \in ActorsOf(t, Image(p, L))}
    BY <1>3, <2>1
  <2>. QED
    BY <2>2 DEF TopCount
<1>6. MaximumBurst(TimesOf(s, D)) = MaximumBurst(TimesOf(t, Image(p, D)))
  BY BurstRenamed
<1>. QED
  BY <1>2, <1>3, <1>4, <1>5, <1>6 DEF Failures
---------------------------------------------------------------------------
(* An answer depends on what was there before, in no particular order *)

Past(s, at) == {i \in DOMAIN s : s[i].timestamp < at}

(* p takes the events of s before `at` to those of t. *)
Shuffles(p, s, t, at) ==
  Renames(p, Past(s, at), s, t) /\ Image(p, Past(s, at)) = Past(t, at)

SamePast(e, f, at) ==
  /\ e.engineVersion = f.engineVersion
  /\ \E p : Shuffles(p, e.deposits, f.deposits, at)
  /\ \E p : Shuffles(p, e.withdrawals, f.withdrawals, at)
  /\ {r \in Range(e.registrations) : r.timestamp < at} = {r \in Range(f.registrations) : r.timestamp < at}

LEMMA PastFinite ==
  ASSUME NEW T, NEW s \in Seq(T), NEW at
  PROVE  IsFiniteSet(Past(s, at)) /\ 0 \notin DOMAIN s /\ IsFiniteSet(DOMAIN s) /\ DOMAIN s \subseteq Nat
<1>1. DOMAIN s = 1..Len(s) /\ Len(s) \in Nat
  OBVIOUS
<1>2. IsFiniteSet(1..Len(s))
  BY <1>1, FS_Interval
<1>3. Past(s, at) \subseteq DOMAIN s
  BY DEF Past
<1>. QED
  BY <1>1, <1>2, <1>3, FS_Subset

LEMMA MatchingShuffled ==
  ASSUME NEW p, NEW s, NEW t, NEW at, Shuffles(p, s, t, at), NEW token, NEW amount
  PROVE  /\ Matching(s, token, amount, at) \subseteq Past(s, at)
         /\ Matching(t, token, amount, at) = Image(p, Matching(s, token, amount, at))
<1>1. \A i \in Past(s, at) : t[p[i]] = s[i] /\ p[i] \in Past(t, at) /\ p[i] \in DOMAIN t
  BY DEF Shuffles, Renames, Image, Past
<1>2. \A j \in Past(t, at) : \E i \in Past(s, at) : j = p[i]
  BY DEF Shuffles, Image
<1>3. Matching(s, token, amount, at) \subseteq Past(s, at) /\ Matching(t, token, amount, at) \subseteq Past(t, at)
  BY DEF Matching, Within, Past
<1>4. \A i \in Past(s, at) : i \in Matching(s, token, amount, at) <=> p[i] \in Matching(t, token, amount, at)
  BY <1>1 DEF Matching, Past
<1>. QED
  BY <1>2, <1>3, <1>4 DEF Image

LEMMA CohortShuffled ==
  ASSUME NEW T, NEW s \in Seq(T), NEW t \in Seq(T), NEW at, NEW p, Shuffles(p, s, t, at),
         NEW actor, NEW token, NEW amount
  PROVE  CohortFor(actor, token, amount, at, s) = CohortFor(actor, token, amount, at, t)
<1>. DEFINE own == [timestamp |-> at, actor |-> actor, token |-> token, amount |-> amount]
            M(u) == Matching(u, token, amount, at)
            L(u) == {i \in M(u) : Within(u[i], at, CohortSeconds)}
            q == [i \in {0} \cup Past(s, at) |-> IF i = 0 THEN 0 ELSE p[i]]
            D == M(s) \cup {0}
            P == L(s) \cup {0}
<1>1. M(s) \subseteq Past(s, at) /\ M(t) = Image(p, M(s))
  BY MatchingShuffled
<1>2. /\ 0 \notin DOMAIN s /\ 0 \notin DOMAIN t /\ IsFiniteSet(Past(s, at))
      /\ Past(s, at) \subseteq DOMAIN s /\ Past(t, at) \subseteq DOMAIN t
  BY PastFinite DEF Past
<1>3. \A i \in Past(s, at) : t[p[i]] = s[i] /\ p[i] \in Past(t, at)
  BY DEF Shuffles, Renames, Image
<1>4. \A i \in Past(s, at) : i # 0 /\ p[i] # 0 /\ q[i] = p[i]
  BY <1>2, <1>3
<1>5. Renames(q, D, Joined(s, own), Joined(t, own))
  <2>. HIDE DEF own, M, q
  <2>1. \A i \in Past(s, at) : Joined(s, own)[i] = s[i] /\ Joined(t, own)[p[i]] = t[p[i]]
    BY <1>2, <1>3, <1>4 DEF Joined
  <2>2. Joined(s, own)[0] = own /\ Joined(t, own)[0] = own
    BY DEF Joined
  <2>3. q[0] = 0
    BY DEF q
  <2>4. \A i, j \in Past(s, at) : p[i] = p[j] => i = j
    BY DEF Shuffles, Renames
  <2>5. \A i \in D : i = 0 \/ i \in Past(s, at)
    BY <1>1
  <2>. QED
    BY <1>3, <1>4, <2>1, <2>2, <2>3, <2>4, <2>5 DEF Renames
<1>6. ASSUME NEW X \in SUBSET Past(s, at) PROVE Image(q, X \cup {0}) = Image(p, X) \cup {0}
  <2>1. q[0] = 0 /\ \A i \in X : q[i] = p[i]
    BY <1>4
  <2>. HIDE DEF q
  <2>. QED
    BY <2>1 DEF Image
<1>7. IsFiniteSet(D)
  <2>1. IsFiniteSet(M(s))
    BY <1>1, <1>2, FS_Subset
  <2>. QED
    BY <2>1, FS_AddElement
<1>8. L(t) = Image(p, L(s)) /\ L(s) \subseteq Past(s, at)
  <2>. HIDE DEF M
  <2>. QED
    BY <1>1, <1>3 DEF Image
<1>9. /\ Cardinality(P) = Cardinality(Image(q, P))
      /\ Failures(Joined(s, own), P, D) = Failures(Joined(t, own), Image(q, P), Image(q, D))
  <2>1. P \in SUBSET D
    OBVIOUS
  <2>. HIDE DEF D, P, q, own
  <2>. QED
    BY <1>5, <1>7, <2>1, FailuresRenamed
<1>10. Image(q, P) = L(t) \cup {0} /\ Image(q, D) = M(t) \cup {0}
  <2>1. Image(q, L(s) \cup {0}) = Image(p, L(s)) \cup {0}
    BY <1>6, <1>8
  <2>2. Image(q, M(s) \cup {0}) = Image(p, M(s)) \cup {0}
    BY <1>1, <1>6
  <2>. QED
    BY <1>1, <1>8, <2>1, <2>2
<1>. QED
  BY <1>9, <1>10 DEF CohortFor

(* From here on the two snapshots differ only in what is not in the past. *)

LEMMA CohortSame ==
  ASSUME NEW e \in Snapshot, NEW f \in Snapshot, NEW at, SamePast(e, f, at),
         NEW i, NEW amount
  PROVE  Cohort(i, amount, at, e) = Cohort(i, amount, at, f)
<1>1. ObservationsFor(i, e) \in Seq(Observation) /\ ObservationsFor(i, f) \in Seq(Observation)
  BY DEF ObservationsFor, Snapshot
<1>2. \E p : Shuffles(p, ObservationsFor(i, e), ObservationsFor(i, f), at)
  BY DEF SamePast, ObservationsFor
<1>. QED
  BY <1>1, <1>2, CohortShuffled DEF Cohort

LEMMA SignalsSame ==
  ASSUME NEW e \in Snapshot, NEW f \in Snapshot, NEW at, SamePast(e, f, at), NEW i
  PROVE  Signals(i, at, e) = Signals(i, at, f)
<1>1. Unused(i, at, e) = Unused(i, at, f)
  <2>1. PICK p : Shuffles(p, ObservationsFor(i, e), ObservationsFor(i, f), at)
    BY DEF SamePast, ObservationsFor
  <2>2. Matching(ObservationsFor(i, f), i.token, i.amount, at)
        = Image(p, Matching(ObservationsFor(i, e), i.token, i.amount, at))
    BY <2>1, MatchingShuffled
  <2>. QED
    BY <2>2 DEF Unused, Image
<1>2. PICK p : Shuffles(p, e.deposits, f.deposits, at)
  BY DEF SamePast
<1>3. Counterparts(i, at, f) = Image(p, Counterparts(i, at, e)) /\ Counterparts(i, at, e) \subseteq Past(e.deposits, at)
  BY <1>2, MatchingShuffled DEF Counterparts
<1>4. (Counterparts(i, at, e) # {}) = (Counterparts(i, at, f) # {})
  BY <1>3 DEF Image
<1>5. (\E c \in Counterparts(i, at, e) : at - e.deposits[c].timestamp <= ProximitySeconds)
      = (\E c \in Counterparts(i, at, f) : at - f.deposits[c].timestamp <= ProximitySeconds)
  <2>1. \A c \in Counterparts(i, at, e) : f.deposits[p[c]] = e.deposits[c]
    BY <1>2, <1>3 DEF Shuffles, Renames
  <2>. QED
    BY <1>3, <2>1 DEF Image
<1>6. RecentlyRegistered(i, at, e) = RecentlyRegistered(i, at, f)
  <2>1. \A r : r \in Range(e.registrations) /\ r.timestamp < at <=> r \in Range(f.registrations) /\ r.timestamp < at
    BY DEF SamePast
  <2>. QED
    BY <2>1 DEF RecentlyRegistered, Within
<1>7. Cohort(i, i.amount, at, e) = Cohort(i, i.amount, at, f)
  BY CohortSame
<1>8. SignalsV14(i, at, e) = SignalsV14(i, at, f)
  BY <1>1, <1>4, <1>5, <1>6, <1>7 DEF SignalsV14
<1>. QED
  BY <1>8 DEF Signals, SamePast

(* Preferred is a strict total order on amounts. *)
LEMMA PreferredOrders ==
  ASSUME NEW A \in SUBSET Int, NEW from \in Int, NEW cohorts, \A a \in A : cohorts[a].projected \in Int
  PROVE  /\ \A a \in A : ~Preferred(a, a, from, cohorts)
         /\ \A a, b \in A : Preferred(a, b, from, cohorts) => ~Preferred(b, a, from, cohorts)
         /\ \A a, b \in A : a = b \/ Preferred(a, b, from, cohorts) \/ Preferred(b, a, from, cohorts)
         /\ \A a, b, c \in A : /\ Preferred(a, b, from, cohorts)
                               /\ Preferred(b, c, from, cohorts)
                               => Preferred(a, c, from, cohorts)
<1>. DEFINE n(a) == cohorts[a].projected
            d(a) == Deviation(a, from)
<1>1. ASSUME NEW a \in A PROVE a \in Int /\ n(a) \in Int /\ d(a) \in Int
  <2>1. a \in Int /\ n(a) \in Int
    OBVIOUS
  <2>. HIDE DEF n
  <2>2. a - from \in Int /\ from - a \in Int
    BY <2>1
  <2>. QED
    BY <2>1, <2>2 DEF Deviation
<1>2. \A a, b \in A : Preferred(a, b, from, cohorts)
                      <=> d(a) < d(b) \/ (d(a) = d(b) /\ (n(a) > n(b) \/ (n(a) = n(b) /\ a < b)))
  BY DEF Preferred
<1>. HIDE DEF n, d
<1>3. ASSUME NEW a \in A PROVE ~Preferred(a, a, from, cohorts)
  <2>1. n(a) \in Int /\ d(a) \in Int /\ a \in Int
    BY <1>1
  <2>2. Preferred(a, a, from, cohorts)
        => d(a) < d(a) \/ (d(a) = d(a) /\ (n(a) > n(a) \/ (n(a) = n(a) /\ a < a)))
    BY <1>2
  <2>. QED
    BY <2>1, <2>2
<1>4. ASSUME NEW a \in A, NEW b \in A
      PROVE  /\ Preferred(a, b, from, cohorts) => ~Preferred(b, a, from, cohorts)
             /\ a = b \/ Preferred(a, b, from, cohorts) \/ Preferred(b, a, from, cohorts)
  <2>1. n(a) \in Int /\ n(b) \in Int /\ d(a) \in Int /\ d(b) \in Int /\ a \in Int /\ b \in Int
    BY <1>1
  <2>. QED
    BY <1>2, <2>1
<1>5. ASSUME NEW a \in A, NEW b \in A, NEW c \in A,
             Preferred(a, b, from, cohorts), Preferred(b, c, from, cohorts)
      PROVE  Preferred(a, c, from, cohorts)
  <2>1. /\ n(a) \in Int /\ n(b) \in Int /\ n(c) \in Int
        /\ d(a) \in Int /\ d(b) \in Int /\ d(c) \in Int
        /\ a \in Int /\ b \in Int /\ c \in Int
    BY <1>1
  <2>2. d(a) < d(b) \/ (d(a) = d(b) /\ (n(a) > n(b) \/ (n(a) = n(b) /\ a < b)))
    BY <1>2, <1>5
  <2>3. d(b) < d(c) \/ (d(b) = d(c) /\ (n(b) > n(c) \/ (n(b) = n(c) /\ b < c)))
    BY <1>2, <1>5
  <2>4. d(a) < d(c) \/ (d(a) = d(c) /\ (n(a) > n(c) \/ (n(a) = n(c) /\ a < c)))
    BY <2>1, <2>2, <2>3
  <2>. QED
    BY <1>2, <2>4
<1>. QED
  BY <1>3, <1>4, <1>5

(* The sort has a head, and it is a candidate no other is preferred to.      *)
LEMMA BestIsPreferred ==
  ASSUME NEW all, NEW H \in SUBSET Int, IsFiniteSet(H), H # {}, NEW from \in Int, NEW cohorts,
         \A i \in H : all[i].amount \in Int /\ cohorts[all[i].amount].projected \in Int
  PROVE  LET b == Best(all, H, from, cohorts)
         IN b \in H /\ \A j \in H : ~Preferred(all[j].amount, all[b].amount, from, cohorts)
<1>. DEFINE a(i) == all[i].amount
            A == {a(i) : i \in H}
            pref(x, y) == Preferred(x, y, from, cohorts)
            R == {r \in H \X H : pref(a(r[1]), a(r[2])) \/ (a(r[1]) = a(r[2]) /\ r[1] < r[2])}
<1>1. A \in SUBSET Int /\ \A x \in A : cohorts[x].projected \in Int
  OBVIOUS
<1>2. \A i \in H : a(i) \in A
  OBVIOUS
<1>3. /\ \A x \in A : ~pref(x, x)
      /\ \A x, y \in A : x = y \/ pref(x, y) \/ pref(y, x)
      /\ \A x, y, z \in A : pref(x, y) /\ pref(y, z) => pref(x, z)
  <2>. HIDE DEF A
  <2>. QED
    BY <1>1, PreferredOrders
<1>4. \A x, y \in H : <<x, y>> \in R <=> pref(a(x), a(y)) \/ (a(x) = a(y) /\ x < y)
  OBVIOUS
<1>. HIDE DEF R, pref, a, A
<1>5. \A x \in H : <<x, x>> \notin R
  BY <1>2, <1>3, <1>4
<1>6. \A x, y, z \in H : <<x, y>> \in R /\ <<y, z>> \in R => <<x, z>> \in R
  <2>1. \A x, y, z \in H : x < y /\ y < z => x < z
    OBVIOUS
  <2>. QED
    BY <1>2, <1>3, <1>4, <2>1
<1>7. PICK x \in H : \A y \in H : <<y, x>> \notin R
  BY <1>5, <1>6, MinimalExists
<1>8. \A y \in H : ~pref(a(y), a(x)) /\ (y < x => pref(a(x), a(y)))
  BY <1>2, <1>3, <1>4, <1>7
<1>. QED
  BY <1>7, <1>8 DEF Best, pref, a

LEMMA CandidatesShuffled ==
  ASSUME NEW e, NEW f, NEW i, NEW at, NEW p,
         Shuffles(p, ObservationsFor(i, e), ObservationsFor(i, f), at)
  PROVE  /\ Candidates(i, at, e) \subseteq Past(ObservationsFor(i, e), at)
         /\ Candidates(i, at, f) = Image(p, Candidates(i, at, e))
<1>. DEFINE s == ObservationsFor(i, e)
            t == ObservationsFor(i, f)
<1>1. \A k \in Past(s, at) : t[p[k]] = s[k] /\ p[k] \in Past(t, at) /\ p[k] \in DOMAIN t
  BY DEF Shuffles, Renames, Image, Past
<1>2. \A j \in Past(t, at) : \E k \in Past(s, at) : j = p[k]
  BY DEF Shuffles, Image
<1>3. Candidates(i, at, e) \subseteq Past(s, at) /\ Candidates(i, at, f) \subseteq Past(t, at)
  BY DEF Candidates, Within, Past
<1>4. \A k \in Past(s, at) : k \in Candidates(i, at, e) <=> p[k] \in Candidates(i, at, f)
  BY <1>1 DEF Candidates, Past
<1>. HIDE DEF s, t
<1>5. Candidates(i, at, f) = Image(p, Candidates(i, at, e))
  BY <1>2, <1>3, <1>4 DEF Image
<1>. QED
  BY <1>3, <1>5 DEF s

LEMMA CohortSize ==
  ASSUME NEW e \in Snapshot, NEW i, NEW at, NEW amount
  PROVE  Cohort(i, amount, at, e).projected \in Nat
<1>. DEFINE s == ObservationsFor(i, e)
            L == {k \in Matching(s, i.token, amount, at) : Within(s[k], at, CohortSeconds)}
<1>1. s \in Seq(Observation)
  BY DEF ObservationsFor, Snapshot
<1>2. L \subseteq Past(s, at)
  BY DEF Matching, Past, Within
<1>3. IsFiniteSet(L)
  <2>. HIDE DEF s, L
  <2>. QED
    BY <1>1, <1>2, PastFinite, FS_Subset
<1>4. Cardinality(L \cup {0}) \in Nat
  BY <1>3, FS_AddElement, FS_CardinalityType
<1>. QED
  BY <1>4 DEF Cohort, CohortFor

(* What a recommendation chooses from *)
AmountAt(i, e, k) == ObservationsFor(i, e)[k].amount
HealthyCandidates(i, at, e) ==
  {k \in Candidates(i, at, e) : Cohort(i, AmountAt(i, e, k), at, e).healthy}
CohortsOf(i, at, e) ==
  [a \in {AmountAt(i, e, k) : k \in Candidates(i, at, e)} |-> Cohort(i, a, at, e)]
Chosen(i, at, e) ==
  AmountAt(i, e, Best(ObservationsFor(i, e), HealthyCandidates(i, at, e), i.amount, CohortsOf(i, at, e)))

LEMMA RecommendationCases ==
  ASSUME NEW i, NEW at, NEW e
  PROVE  LET current == Cohort(i, i.amount, at, e)
         IN Recommendation(i, at, e) =
              IF current.healthy THEN Recommend("NONE", i.amount)
              ELSE IF i.mode = "flexible" /\ HealthyCandidates(i, at, e) # {}
              THEN Recommend("CHANGE_AMOUNT", Chosen(i, at, e))
              ELSE IF /\ e.engineVersion = "CUTOUT-v1.4"
                      /\ \/ current.projected <= ThinCohort
                         \/ "BURST_CONCENTRATION" \in current.failures
                      /\ i.deadline - at >= WaitHorizon
              THEN Recommend("WAIT", i.amount)
              ELSE Recommend("NO_SAFER_EXECUTION", i.amount)
<1>. DEFINE all == ObservationsFor(i, e)
            C == Candidates(i, at, e)
            cohorts == [a \in {all[k].amount : k \in C} |-> Cohort(i, a, at, e)]
            H == {k \in C : cohorts[all[k].amount].healthy}
            current == Cohort(i, i.amount, at, e)
<1>1. cohorts = CohortsOf(i, at, e)
  BY DEF CohortsOf, AmountAt
<1>2. H = HealthyCandidates(i, at, e)
  BY DEF HealthyCandidates, AmountAt
<1>3. all[Best(all, H, i.amount, cohorts)].amount = Chosen(i, at, e)
  BY <1>1, <1>2 DEF Chosen, AmountAt
<1>4. Recommendation(i, at, e) =
        IF current.healthy THEN Recommend("NONE", i.amount)
        ELSE IF i.mode = "flexible" /\ H # {}
        THEN Recommend("CHANGE_AMOUNT", all[Best(all, H, i.amount, cohorts)].amount)
        ELSE IF /\ e.engineVersion = "CUTOUT-v1.4"
                /\ \/ current.projected <= ThinCohort
                   \/ "BURST_CONCENTRATION" \in current.failures
                /\ i.deadline - at >= WaitHorizon
        THEN Recommend("WAIT", i.amount)
        ELSE Recommend("NO_SAFER_EXECUTION", i.amount)
  BY DEF Recommendation
<1>. HIDE DEF all, C, cohorts, H
<1>. QED
  BY <1>2, <1>3, <1>4

(* The chosen amount is that of a healthy candidate, and no other healthy    *)
(* candidate is preferred to it.                                             *)
LEMMA ChosenIsBest ==
  ASSUME NEW e \in Snapshot, NEW i \in Intent, NEW at, HealthyCandidates(i, at, e) # {}
  PROVE  LET H == HealthyCandidates(i, at, e)
             b == Best(ObservationsFor(i, e), H, i.amount, CohortsOf(i, at, e))
         IN /\ b \in H
            /\ Chosen(i, at, e) = AmountAt(i, e, b)
            /\ \A j \in H : /\ AmountAt(i, e, j) \in Nat
                            /\ AmountAt(i, e, j) \in DOMAIN CohortsOf(i, at, e)
                            /\ CohortsOf(i, at, e)[AmountAt(i, e, j)].projected \in Nat
                            /\ ~Preferred(AmountAt(i, e, j), Chosen(i, at, e), i.amount, CohortsOf(i, at, e))
<1>. DEFINE s == ObservationsFor(i, e)
            H == HealthyCandidates(i, at, e)
            c == CohortsOf(i, at, e)
<1>1. s \in Seq(Observation)
  BY DEF ObservationsFor, Snapshot
<1>2. H \subseteq Candidates(i, at, e) /\ H \subseteq DOMAIN s
  BY DEF HealthyCandidates, Candidates
<1>3. IsFiniteSet(H) /\ H \in SUBSET Int
  <2>. HIDE DEF s, H
  <2>1. IsFiniteSet(DOMAIN s) /\ DOMAIN s \subseteq Nat
    BY <1>1, PastFinite
  <2>. QED
    BY <1>2, <2>1, FS_Subset
<1>4. \A j \in H : s[j].amount \in Nat
  <2>. HIDE DEF s, H
  <2>1. \A j \in DOMAIN s : s[j] \in Observation
    BY <1>1
  <2>. QED
    BY <1>2, <2>1 DEF Observation
<1>5. \A j \in H : s[j].amount \in DOMAIN c /\ c[s[j].amount] = Cohort(i, s[j].amount, at, e)
  BY <1>2 DEF CohortsOf, AmountAt
<1>6. \A j \in H : c[s[j].amount].projected \in Nat
  BY <1>5, CohortSize
<1>7. i.amount \in Int
  BY DEF Intent
<1>8. Best(s, H, i.amount, c) \in H /\ \A j \in H : ~Preferred(s[j].amount, s[Best(s, H, i.amount, c)].amount, i.amount, c)
  <2>. HIDE DEF s, H, c
  <2>1. \A j \in H : s[j].amount \in Int /\ c[s[j].amount].projected \in Int
    BY <1>4, <1>6
  <2>2. H # {}
    BY DEF H
  <2>. QED
    BY <1>3, <1>7, <2>1, <2>2, BestIsPreferred
<1>. QED
  BY <1>4, <1>5, <1>6, <1>8 DEF Chosen, AmountAt

LEMMA RecommendationSame ==
  ASSUME NEW e \in Snapshot, NEW f \in Snapshot, NEW at, SamePast(e, f, at), NEW i \in Intent
  PROVE  Recommendation(i, at, e) = Recommendation(i, at, f)
<1>. DEFINE C(g) == Candidates(i, at, g)
            H(g) == HealthyCandidates(i, at, g)
            A(g, k) == AmountAt(i, g, k)
<1>1. \A a : Cohort(i, a, at, e) = Cohort(i, a, at, f)
  BY CohortSame
<1>2. PICK p : Shuffles(p, ObservationsFor(i, e), ObservationsFor(i, f), at)
  BY DEF SamePast, ObservationsFor
<1>3. C(e) \subseteq Past(ObservationsFor(i, e), at) /\ C(f) = Image(p, C(e))
  BY <1>2, CandidatesShuffled
<1>4. \A k \in C(e) : A(f, p[k]) = A(e, k)
  BY <1>2, <1>3 DEF Shuffles, Renames, AmountAt
<1>5. H(f) = Image(p, H(e)) /\ H(e) \subseteq C(e)
  BY <1>1, <1>3, <1>4 DEF HealthyCandidates, Image
<1>6. CohortsOf(i, at, e) = CohortsOf(i, at, f)
  <2>1. {A(e, k) : k \in C(e)} = {A(f, k) : k \in C(f)}
    <3>. HIDE DEF A, C
    <3>. QED
      BY <1>3, <1>4 DEF Image
  <2>. QED
    BY <1>1, <2>1 DEF CohortsOf
<1>7. ASSUME H(e) # {} PROVE Chosen(i, at, e) = Chosen(i, at, f)
  <2>. DEFINE c == CohortsOf(i, at, e)
              B == {A(e, k) : k \in H(e)}
  <2>1. H(f) # {}
    BY <1>5, <1>7 DEF Image
  <2>2. B = {A(f, k) : k \in H(f)}
    <3>. HIDE DEF A, C, H
    <3>. QED
      BY <1>4, <1>5 DEF Image
  <2>3. Chosen(i, at, e) \in B /\ \A a \in B : a \in Nat /\ c[a].projected \in Nat
                                              /\ ~Preferred(a, Chosen(i, at, e), i.amount, c)
    BY <1>7, ChosenIsBest
  <2>4. Chosen(i, at, f) \in {A(f, k) : k \in H(f)}
        /\ \A a \in {A(f, k) : k \in H(f)} : ~Preferred(a, Chosen(i, at, f), i.amount, c)
    BY <1>6, <2>1, ChosenIsBest
  <2>. HIDE DEF B, c
  <2>5. Chosen(i, at, f) \in B /\ \A a \in B : ~Preferred(a, Chosen(i, at, f), i.amount, c)
    BY <2>2, <2>4
  <2>6. i.amount \in Int /\ B \in SUBSET Int /\ \A a \in B : c[a].projected \in Int
    BY <2>3 DEF Intent
  <2>7. \A a, b \in B : a = b \/ Preferred(a, b, i.amount, c) \/ Preferred(b, a, i.amount, c)
    BY <2>6, PreferredOrders
  <2>. QED
    BY <2>3, <2>5, <2>7
<1>8. (H(e) = {}) = (H(f) = {})
  BY <1>5 DEF Image
<1>9. e.engineVersion = f.engineVersion
  BY DEF SamePast
<1>. HIDE DEF C, H, A
<1>. QED
  BY <1>1, <1>7, <1>8, <1>9, RecommendationCases DEF H

(* The engine is a function of what happened before the moment of the        *)
(* evaluation, in whatever order the snapshot lists it.                      *)
THEOREM EvaluateSame ==
  ASSUME NEW e \in Snapshot, NEW f \in Snapshot, NEW at, SamePast(e, f, at), NEW i \in Intent
  PROVE  Evaluate(i, at, e) = Evaluate(i, at, f)
BY SignalsSame, RecommendationSame, CohortSame DEF Evaluate

---------------------------------------------------------------------------
(* Replaying and reordering *)

LEMMA SamePastReflexive ==
  ASSUME NEW s, NEW t, NEW at, Past(s, at) = Past(t, at), \A k \in Past(s, at) : s[k] = t[k]
  PROVE  \E p : Shuffles(p, s, t, at)
<1>. DEFINE p == [k \in Past(s, at) |-> k]
<1>1. \A k \in Past(s, at) : p[k] = k
  OBVIOUS
<1>. HIDE DEF p
<1>2. Shuffles(p, s, t, at)
  BY <1>1 DEF Shuffles, Renames, Image
<1>. QED
  BY <1>2

LEMMA AppendedIsLater ==
  ASSUME NEW T, NEW s \in Seq(T), NEW o \in T, NEW at \in Nat, o.timestamp \in Nat, at <= o.timestamp
  PROVE  /\ \E p : Shuffles(p, s, Append(s, o), at)
         /\ {r \in Range(s) : r.timestamp < at} = {r \in Range(Append(s, o)) : r.timestamp < at}
<1>1. /\ DOMAIN Append(s, o) = DOMAIN s \cup {Len(s) + 1}
      /\ \A k \in DOMAIN s : Append(s, o)[k] = s[k]
      /\ Append(s, o)[Len(s) + 1] = o
  OBVIOUS
<1>2. ~(o.timestamp < at)
  OBVIOUS
<1>3. Past(s, at) = Past(Append(s, o), at)
  BY <1>1, <1>2 DEF Past
<1>4. \A k \in Past(s, at) : s[k] = Append(s, o)[k]
  BY <1>1 DEF Past
<1>5. {r \in Range(s) : r.timestamp < at} = {r \in Range(Append(s, o)) : r.timestamp < at}
  BY <1>1, <1>2 DEF Range
<1>. QED
  BY <1>3, <1>4, <1>5, SamePastReflexive

LEMMA ReversedIsSame ==
  ASSUME NEW T, NEW s \in Seq(T), NEW at
  PROVE  /\ \E p : Shuffles(p, s, Reverse(s), at)
         /\ Range(s) = Range(Reverse(s))
         /\ Reverse(s) \in Seq(T)
<1>. DEFINE n == Len(s)
            p == [k \in 1..n |-> n - k + 1]
<1>1. n \in Nat /\ DOMAIN s = 1..n /\ \A k \in 1..n : s[k] \in T
  OBVIOUS
<1>2. Reverse(s) = [k \in 1..n |-> s[n - k + 1]]
  BY DEF Reverse
<1>3. \A k \in 1..n : n - k + 1 \in 1..n /\ n - (n - k + 1) + 1 = k
  BY <1>1
<1>4. \A k \in 1..n : p[k] \in 1..n /\ p[p[k]] = k
  BY <1>3
<1>5. \A k \in 1..n : Reverse(s)[p[k]] = s[k] /\ s[p[k]] = Reverse(s)[k]
  BY <1>2, <1>3
<1>6. DOMAIN Reverse(s) = 1..n
  BY <1>2
<1>7. Reverse(s) \in Seq(T)
  BY <1>1, <1>2, <1>3
<1>. HIDE DEF p, n
<1>8. Shuffles(p, s, Reverse(s), at)
  BY <1>1, <1>4, <1>5, <1>6 DEF Shuffles, Renames, Image, Past
<1>9. Range(s) = Range(Reverse(s))
  BY <1>1, <1>4, <1>5, <1>6 DEF Range
<1>. QED
  BY <1>7, <1>8, <1>9

VerdictInv == TypeInv /\ VerdictIsReplayable

LEMMA AnswerReplayable ==
  ASSUME TypeInv, NEW i, Answer(i)
  PROVE  VerdictIsReplayable'
<1>1. result' = Evaluate(i, now, evidence) /\ intent' = i /\ evidence' = evidence
  BY DEF Answer
<1>2. result'.at = now
  BY <1>1, AnswerShape
<1>. QED
  BY <1>1, <1>2 DEF VerdictIsReplayable

LEMMA ArrivalReplayable ==
  ASSUME VerdictInv, NEW e \in Snapshot, Arrive(e),
         stage # "PROPOSING" => SamePast(evidence, e, result.at)
  PROVE  VerdictIsReplayable'
<1>. SUFFICES ASSUME stage # "PROPOSING" PROVE result = Evaluate(intent, result.at, e)
  BY DEF VerdictIsReplayable, Arrive
<1>1. evidence \in Snapshot /\ intent \in Intent
  BY DEF VerdictInv, TypeInv, TypeOK
<1>2. Evaluate(intent, result.at, evidence) = Evaluate(intent, result.at, e)
  BY <1>1, EvaluateSame
<1>. QED
  BY <1>2 DEF VerdictInv, VerdictIsReplayable

LEMMA SamePastOfAppend ==
  ASSUME NEW e \in Snapshot, NEW at \in Nat
  PROVE  /\ \A o \in Observation : at <= o.timestamp =>
              /\ SamePast(e, [e EXCEPT !.deposits = Append(@, o)], at)
              /\ SamePast(e, [e EXCEPT !.withdrawals = Append(@, o)], at)
         /\ \A r \in [timestamp : Nat, actor : Accounts] : at <= r.timestamp =>
              SamePast(e, [e EXCEPT !.registrations = Append(@, r)], at)
<1>1. /\ e.deposits \in Seq(Observation) /\ e.withdrawals \in Seq(Observation)
      /\ e.registrations \in Seq([timestamp : Nat, actor : Accounts])
  BY DEF Snapshot
<1>2. \A s : \E p : Shuffles(p, s, s, at)
  BY SamePastReflexive
<1>3. ASSUME NEW o \in Observation, at <= o.timestamp
      PROVE  /\ SamePast(e, [e EXCEPT !.deposits = Append(@, o)], at)
             /\ SamePast(e, [e EXCEPT !.withdrawals = Append(@, o)], at)
  <2>1. o.timestamp \in Nat
    BY DEF Observation
  <2>2. /\ \E p : Shuffles(p, e.deposits, Append(e.deposits, o), at)
        /\ \E p : Shuffles(p, e.withdrawals, Append(e.withdrawals, o), at)
    BY <1>1, <1>3, <2>1, AppendedIsLater
  <2>. QED
    BY <1>2, <2>2 DEF SamePast, Snapshot
<1>4. ASSUME NEW r \in [timestamp : Nat, actor : Accounts], at <= r.timestamp
      PROVE  SamePast(e, [e EXCEPT !.registrations = Append(@, r)], at)
  <2>1. {q \in Range(e.registrations) : q.timestamp < at}
        = {q \in Range(Append(e.registrations, r)) : q.timestamp < at}
    <3>. DEFINE T == [timestamp : Nat, actor : Accounts]
    <3>1. r.timestamp \in Nat /\ r \in T /\ e.registrations \in Seq(T)
      BY <1>1
    <3>. HIDE DEF T
    <3>. QED
      BY <1>4, <3>1, AppendedIsLater
  <2>. QED
    BY <1>2, <2>1 DEF SamePast, Snapshot
<1>. QED
  BY <1>3, <1>4

LEMMA NextVerdict == VerdictInv /\ [Next]_vars => VerdictInv'
<1>. SUFFICES ASSUME VerdictInv, [Next]_vars PROVE VerdictInv'
  OBVIOUS
<1>1. TypeInv'
  BY NextTypes DEF VerdictInv
<1>2. evidence \in Snapshot /\ stage # "PROPOSING" => result.at \in Nat /\ result.at <= now
  BY SessionAssumption DEF VerdictInv, TypeInv, TypeOK
<1>3. CASE Tick
  BY <1>1, <1>3 DEF Tick, VerdictInv, VerdictIsReplayable
<1>4. ASSUME NEW actor \in Actors, NEW amount \in Amounts, Deposit(actor, amount) \/ Withdraw(actor, amount)
      PROVE  VerdictIsReplayable'
  <2>. DEFINE o == Event(actor, amount)
              d == [evidence EXCEPT !.deposits = Append(@, o)]
              w == [evidence EXCEPT !.withdrawals = Append(@, o)]
  <2>1. o \in Observation /\ o.timestamp = now /\ evidence \in Snapshot
    BY SessionAssumption DEF Event, Observation, VerdictInv, TypeInv, TypeOK, Asked, Intent
  <2>2. d \in Snapshot /\ w \in Snapshot
    BY <2>1, AppendUse
  <2>3. stage # "PROPOSING" => SamePast(evidence, d, result.at) /\ SamePast(evidence, w, result.at)
    BY <1>2, <2>1, SamePastOfAppend
  <2>4. Arrive(d) \/ Arrive(w)
    BY <1>4 DEF Deposit, Withdraw
  <2>. HIDE DEF d, w
  <2>. QED
    BY <2>2, <2>3, <2>4, ArrivalReplayable
<1>5. ASSUME NEW actor \in Actors \cup {User}, Register(actor)
      PROVE  VerdictIsReplayable'
  <2>. DEFINE r == [timestamp |-> now, actor |-> actor]
              e == [evidence EXCEPT !.registrations = Append(@, r)]
  <2>1. r \in [timestamp : Nat, actor : Accounts] /\ r.timestamp = now /\ evidence \in Snapshot
    BY SessionAssumption DEF VerdictInv, TypeInv, TypeOK
  <2>2. e \in Snapshot
    BY <2>1, AppendRegistration
  <2>3. stage # "PROPOSING" => SamePast(evidence, e, result.at)
    BY <1>2, <2>1, SamePastOfAppend
  <2>4. Arrive(e)
    BY <1>5 DEF Register
  <2>. HIDE DEF e
  <2>. QED
    BY <2>2, <2>3, <2>4, ArrivalReplayable
<1>6. CASE Propose
  BY <1>1, <1>6, AnswerReplayable DEF Propose, VerdictInv
<1>7. CASE Recheck
  BY <1>1, <1>7, AnswerReplayable DEF Recheck, VerdictInv
<1>8. ASSUME NEW amount \in Amounts, PickFromCover(amount) \/ Choose(amount)
      PROVE  VerdictIsReplayable'
  BY <1>8, AnswerReplayable DEF PickFromCover, Choose, VerdictInv
<1>9. CASE UNCHANGED vars
  BY <1>1, <1>9 DEF vars, VerdictInv, VerdictIsReplayable
<1>. QED
  BY <1>1, <1>3, <1>4, <1>5, <1>6, <1>7, <1>8, <1>9 DEF Next, VerdictInv

LEMMA VerdictInvariant == Spec => []VerdictInv
<1>1. Init => VerdictIsReplayable
  BY DEF Init, VerdictIsReplayable
<1>. QED
  BY InitTypes, NextVerdict, <1>1, PTL DEF Spec, VerdictInv

(* Asking about the past gives the answer the past gave.                     *)
THEOREM Replayable == Spec => []VerdictIsReplayable
<1>1. VerdictInv => VerdictIsReplayable
  BY DEF VerdictInv
<1>. QED
  BY VerdictInvariant, <1>1, PTL

(* The answer does not depend on the order in which events are listed.       *)
THEOREM OrderIrrelevant == Spec => []OrderIsIrrelevant
<1>1. VerdictInv => OrderIsIrrelevant
  <2>. SUFFICES ASSUME VerdictInv, stage # "PROPOSING" PROVE OrderIsIrrelevant
    BY DEF OrderIsIrrelevant
  <2>. DEFINE e == evidence
              f == [evidence EXCEPT !.deposits = Reverse(@), !.withdrawals = Reverse(@),
                                    !.registrations = Reverse(@)]
  <2>1. e \in Snapshot /\ intent \in Intent
    BY DEF VerdictInv, TypeInv, TypeOK
  <2>2. /\ e.deposits \in Seq(Observation) /\ e.withdrawals \in Seq(Observation)
        /\ e.registrations \in Seq([timestamp : Nat, actor : Accounts])
    BY <2>1 DEF Snapshot
  <2>3. /\ f.engineVersion = e.engineVersion
        /\ f.deposits = Reverse(e.deposits) /\ f.withdrawals = Reverse(e.withdrawals)
        /\ f.registrations = Reverse(e.registrations)
    BY <2>1 DEF Snapshot
  <2>4. f \in Snapshot
    <3>1. /\ Reverse(e.deposits) \in Seq(Observation) /\ Reverse(e.withdrawals) \in Seq(Observation)
          /\ Reverse(e.registrations) \in Seq([timestamp : Nat, actor : Accounts])
      BY <2>2, ReversedIsSame
    <3>. QED
      BY <2>1, <3>1 DEF Snapshot
  <2>5. SamePast(e, f, result.at)
    <3>1. \E p : Shuffles(p, e.deposits, Reverse(e.deposits), result.at)
      BY <2>2, ReversedIsSame
    <3>2. \E p : Shuffles(p, e.withdrawals, Reverse(e.withdrawals), result.at)
      BY <2>2, ReversedIsSame
    <3>3. Range(e.registrations) = Range(Reverse(e.registrations))
      BY <2>2, ReversedIsSame
    <3>. HIDE DEF e, f
    <3>. QED
      BY <2>3, <3>1, <3>2, <3>3 DEF SamePast
  <2>6. Evaluate(intent, result.at, e) = Evaluate(intent, result.at, f)
    <3>. HIDE DEF e, f
    <3>. QED
      BY <2>1, <2>4, <2>5, EvaluateSame
  <2>. QED
    BY <2>6 DEF OrderIsIrrelevant, VerdictInv, VerdictIsReplayable
<1>. QED
  BY VerdictInvariant, <1>1, PTL

---------------------------------------------------------------------------
(* Recommendations *)

(* A cohort of one is thin: what is healthy is in live use by an event.      *)
LEMMA HealthyIsUsed ==
  ASSUME NEW i, NEW a, NEW at, NEW e, Cohort(i, a, at, e).healthy
  PROVE  \E k \in DOMAIN ObservationsFor(i, e) :
           LET o == ObservationsFor(i, e)[k]
           IN o.amount = a /\ o.token = i.token /\ Within(o, at, CohortSeconds)
<1>. DEFINE s == ObservationsFor(i, e)
            M == Matching(s, i.token, a, at)
            L == {k \in M : Within(s[k], at, CohortSeconds)}
            own == [timestamp |-> at, actor |-> ActorOf(i), token |-> i.token, amount |-> a]
<1>1. Failures(Joined(s, own), L \cup {0}, M \cup {0}) = {}
  BY DEF Cohort, CohortFor
<1>2. ~(Cardinality(L \cup {0}) <= ThinCohort)
  <2>. HIDE DEF s, M, L, own
  <2>. QED
    BY <1>1 DEF Failures
<1>3. L # {}
  <2>1. Cardinality({0}) = 1
    BY FS_Singleton
  <2>2. ThinCohort \in Nat \ {0}
    BY EngineAssumption
  <2>. HIDE DEF L
  <2>. QED
    BY <1>2, <2>1, <2>2
<1>. QED
  BY <1>3 DEF Matching

(* Live uses of other permitted amounts are the candidates.                  *)
LEMMA LiveIsCandidate ==
  ASSUME NEW i, NEW at, NEW e, NEW a \in i.min..i.max, a # i.amount, Cohort(i, a, at, e).healthy
  PROVE  \E k \in HealthyCandidates(i, at, e) : AmountAt(i, e, k) = a
<1>1. PICK k \in DOMAIN ObservationsFor(i, e) :
        LET o == ObservationsFor(i, e)[k]
        IN o.amount = a /\ o.token = i.token /\ Within(o, at, CohortSeconds)
  BY HealthyIsUsed
<1>2. k \in Candidates(i, at, e) /\ AmountAt(i, e, k) = a
  BY <1>1 DEF Candidates, AmountAt
<1>. QED
  BY <1>2 DEF HealthyCandidates

LEMMA RecommendShape == \A k, a : Recommend(k, a).kind = k /\ Recommend(k, a).to = a
BY DEF Recommend

LEMMA ClosestIsRecommended ==
  ASSUME NEW e \in Snapshot, NEW i, Asked(i), NEW at, ~Cohort(i, i.amount, at, e).healthy
  PROVE  LET others == {a \in (i.min..i.max) \ {i.amount} : Cohort(i, a, at, e).healthy}
             r == Recommendation(i, at, e)
         IN IF others = {} THEN r.kind # "CHANGE_AMOUNT"
            ELSE /\ r.kind = "CHANGE_AMOUNT"
                 /\ r.to \in others
                 /\ \A a \in others : Deviation(r.to, i.amount) <= Deviation(a, i.amount)
<1>. DEFINE others == {a \in (i.min..i.max) \ {i.amount} : Cohort(i, a, at, e).healthy}
            r == Recommendation(i, at, e)
            H == HealthyCandidates(i, at, e)
<1>1. i \in Intent /\ i.amount \in Nat /\ i.min \in Nat /\ i.max \in Nat /\ i.mode \in {"exact", "flexible"}
  BY DEF Asked, Intent
<1>2. \A k \in H : AmountAt(i, e, k) \in others
  BY DEF HealthyCandidates, Candidates, AmountAt
<1>3. \A a \in others : \E k \in H : AmountAt(i, e, k) = a
  BY LiveIsCandidate
<1>4. others # {} => i.mode = "flexible"
  BY <1>1 DEF Asked
<1>5. CASE others = {}
  <2>1. H = {}
    BY <1>2, <1>5
  <2>2. r.kind \in {"WAIT", "NO_SAFER_EXECUTION"}
    BY <2>1, RecommendationCases, RecommendShape
  <2>. QED
    BY <1>5, <2>2
<1>6. CASE others # {}
  <2>1. H # {} /\ i.mode = "flexible"
    BY <1>3, <1>4, <1>6
  <2>2. r = Recommend("CHANGE_AMOUNT", Chosen(i, at, e))
    BY <2>1, RecommendationCases
  <2>3. r.kind = "CHANGE_AMOUNT" /\ r.to = Chosen(i, at, e)
    BY <2>2, RecommendShape
  <2>. DEFINE c == CohortsOf(i, at, e)
  <2>4. /\ Chosen(i, at, e) \in others
        /\ \A a \in others : ~Preferred(a, Chosen(i, at, e), i.amount, c)
    <3>1. PICK b \in H : Chosen(i, at, e) = AmountAt(i, e, b)
      BY <1>1, <2>1, ChosenIsBest
    <3>2. \A j \in H : ~Preferred(AmountAt(i, e, j), Chosen(i, at, e), i.amount, c)
      BY <1>1, <2>1, ChosenIsBest
    <3>. HIDE DEF c, H, others
    <3>. QED
      BY <1>2, <1>3, <3>1, <3>2
  <2>5. \A a \in others : a \in Int
    BY <1>1
  <2>6. ASSUME NEW a \in others
        PROVE  Deviation(Chosen(i, at, e), i.amount) <= Deviation(a, i.amount)
    <3>1. ~(Deviation(a, i.amount) < Deviation(Chosen(i, at, e), i.amount))
      BY <2>4 DEF Preferred
    <3>2. \A x \in Int : Deviation(x, i.amount) \in Int
      BY <1>1 DEF Deviation
    <3>3. Deviation(a, i.amount) \in Int /\ Deviation(Chosen(i, at, e), i.amount) \in Int
      BY <2>4, <2>5, <3>2
    <3>. QED
      BY <3>1, <3>3
  <2>7. /\ others # {} /\ r.kind = "CHANGE_AMOUNT" /\ r.to \in others
        /\ \A a \in others : Deviation(r.to, i.amount) <= Deviation(a, i.amount)
    <3>. HIDE DEF others, r
    <3>. QED
      BY <1>6, <2>3, <2>4, <2>6
  <2>. QED
    BY <2>7, Zenon
<1>. QED
  BY <1>5, <1>6

(* Of all permitted amounts the recommended one is healthy and closest, and  *)
(* if one is healthy, one is recommended.                                    *)
THEOREM ClosestRecommended == Spec => []RecommendationIsClosest
<1>1. VerdictInv => RecommendationIsClosest
  <2>. SUFFICES ASSUME VerdictInv, stage # "PROPOSING", ~result.healthy
                PROVE  RecommendationIsClosest
    BY DEF RecommendationIsClosest
  <2>. DEFINE at == result.at
  <2>1. evidence \in Snapshot /\ Asked(intent) /\ result = Evaluate(intent, at, evidence)
    BY DEF VerdictInv, TypeInv, TypeOK, VerdictIsReplayable
  <2>2. /\ result.healthy = Cohort(intent, intent.amount, at, evidence).healthy
        /\ result.recommendation = Recommendation(intent, at, evidence)
    BY <2>1 DEF Evaluate
  <2>. HIDE DEF at
  <2>3. LET others == {a \in (intent.min..intent.max) \ {intent.amount} : Cohort(intent, a, at, evidence).healthy}
            r == Recommendation(intent, at, evidence)
        IN IF others = {} THEN r.kind # "CHANGE_AMOUNT"
           ELSE /\ r.kind = "CHANGE_AMOUNT"
                /\ r.to \in others
                /\ \A a \in others : Deviation(r.to, intent.amount) <= Deviation(a, intent.amount)
    BY <2>1, <2>2, ClosestIsRecommended
  <2>. QED
    BY <2>2, <2>3 DEF RecommendationIsClosest, HealthyAt, at
<1>. QED
  BY VerdictInvariant, <1>1, PTL

(* Waiting as advised heals nothing by itself.                               *)
THEOREM WaitingDoesNotHeal == Spec => WaitingAloneDoesNotHeal
<1>1. VerdictInv /\ [Next]_vars =>
        (Recheck /\ (\A o \in Range(ObservationsFor(intent, evidence)) :
                       o.amount = intent.amount => o.timestamp < result.at)
          => ~result'.healthy)
  <2>. SUFFICES ASSUME VerdictInv, Recheck, result'.healthy,
                       \A o \in Range(ObservationsFor(intent, evidence)) :
                         o.amount = intent.amount => o.timestamp < result.at
                PROVE  FALSE
    OBVIOUS
  <2>. DEFINE s == ObservationsFor(intent, evidence)
  <2>1. result' = Evaluate(intent, now, evidence) /\ now >= result.at + CohortSeconds /\ stage = "RATED"
    BY DEF Recheck, Answer, WaitHorizon
  <2>2. Cohort(intent, intent.amount, now, evidence).healthy
    BY <2>1 DEF Evaluate
  <2>3. PICK k \in DOMAIN s : s[k].amount = intent.amount /\ Within(s[k], now, CohortSeconds)
    BY <2>2, HealthyIsUsed
  <2>4. s \in Seq(Observation)
    BY DEF VerdictInv, TypeInv, TypeOK, ObservationsFor, Snapshot
  <2>5. now \in Nat /\ result.at \in Int /\ CohortSeconds \in Nat
    BY <2>1, EngineAssumption, SessionAssumption DEF VerdictInv, TypeInv, TypeOK
  <2>. HIDE DEF s
  <2>6. s[k] \in Observation /\ s[k] \in Range(s)
    BY <2>3, <2>4 DEF Range
  <2>7. s[k].timestamp < result.at
    BY <2>3, <2>6 DEF s
  <2>8. s[k].timestamp \in Nat /\ now - CohortSeconds <= s[k].timestamp
    BY <2>3, <2>6 DEF Within, Observation
  <2>. QED
    BY <2>1, <2>5, <2>7, <2>8
<1>. QED
  BY VerdictInvariant, <1>1, PTL DEF Spec, WaitingAloneDoesNotHeal

(* A signal is one of the six, and fires if it does in the later model.      *)
LEMMA FiredSignals ==
  ASSUME NEW i, NEW at, NEW e
  PROVE  \A s \in Fired(Signals(i, at, e)) :
           s \in {"S1", "S2", "S3", "S4", "S5", "S7"} /\ SignalsV14(i, at, e)[s] = "FIRED"
<1>. DEFINE all == SignalsV14(i, at, e)
<1>1. DOMAIN all = {"S1", "S2", "S3", "S4", "S5", "S7"}
  BY DEF SignalsV14
<1>2. \A s \in DOMAIN Signals(i, at, e) : s \in DOMAIN all /\ Signals(i, at, e)[s] = all[s]
  BY DEF Signals
<1>. HIDE DEF all
<1>. QED
  BY <1>1, <1>2 DEF Fired, all

(* A deposit of an amount in live use whose cohort is healthy can only be    *)
(* noticed for the user's recent registration.                               *)
LEMMA LiveDepositAllowed ==
  ASSUME NEW i, NEW at \in Nat, NEW e \in Snapshot, i.action = "shield",
         Cohort(i, i.amount, at, e).healthy
  PROVE  Evaluate(i, at, e).decision = "ALLOW"
<1>1. ~Unused(i, at, e)
  <2>. DEFINE s == ObservationsFor(i, e)
  <2>1. PICK k \in DOMAIN s : s[k].amount = i.amount /\ s[k].token = i.token /\ Within(s[k], at, CohortSeconds)
    BY HealthyIsUsed
  <2>2. s \in Seq(Observation)
    BY DEF ObservationsFor, Snapshot
  <2>. HIDE DEF s
  <2>3. s[k].timestamp \in Nat
    <3>1. s[k] \in Observation
      BY <2>1, <2>2
    <3>. QED
      BY <3>1 DEF Observation
  <2>4. CohortSeconds \in Nat /\ ObservationSeconds \in Nat /\ CohortSeconds < ObservationSeconds
    BY EngineAssumption
  <2>5. Within(s[k], at, ObservationSeconds)
    BY <2>1, <2>3, <2>4 DEF Within
  <2>. QED
    BY <2>1, <2>5 DEF Unused, Matching, s
<1>2. /\ SignalsV14(i, at, e)["S1"] # "FIRED" /\ SignalsV14(i, at, e)["S2"] # "FIRED"
      /\ SignalsV14(i, at, e)["S3"] # "FIRED" /\ SignalsV14(i, at, e)["S5"] # "FIRED"
      /\ SignalsV14(i, at, e)["S7"] # "FIRED"
  BY <1>1 DEF SignalsV14, Fires
<1>. DEFINE F == Fired(Signals(i, at, e))
<1>3. F \subseteq {"S4"}
  BY <1>2, FiredSignals
<1>4. Cardinality(F) \in {0, 1}
  <2>. HIDE DEF F
  <2>1. F = {} \/ F = {"S4"}
    BY <1>3
  <2>. QED
    BY <2>1, FS_EmptySet, FS_Singleton
<1>5. ~({"S2", "S3"} \subseteq F)
  BY <1>3
<1>6. BandFor(Signals(i, at, e)) = "LOW"
  <2>1. ~(Cardinality(F) >= 3) /\ ~(Cardinality(F) = 2)
    BY <1>4
  <2>. QED
    BY <1>5, <2>1 DEF BandFor
<1>7. Evaluate(i, at, e).decision = DecisionFor(BandFor(Signals(i, at, e)))
  BY DEF Evaluate
<1>. QED
  BY <1>6, <1>7 DEF DecisionFor

(* A recommended deposit is allowed.                                         *)
THEOREM DepositAllowed == Spec => []RecommendedDepositIsAllowed
<1>1. VerdictInv => RecommendedDepositIsAllowed
  <2>. SUFFICES ASSUME VerdictInv, stage = "RATED", intent.action = "shield",
                       result.recommendation.kind = "CHANGE_AMOUNT"
                PROVE  Evaluate(ExactIntent("shield", User, intent.token, result.recommendation.to, result.at),
                                result.at, evidence).decision = "ALLOW"
    BY DEF RecommendedDepositIsAllowed
  <2>. DEFINE at == result.at
              to == result.recommendation.to
              final == ExactIntent("shield", User, intent.token, to, at)
  <2>1. evidence \in Snapshot /\ Asked(intent) /\ result = Evaluate(intent, at, evidence) /\ at \in Nat
    BY SessionAssumption DEF VerdictInv, TypeInv, TypeOK, VerdictIsReplayable
  <2>2. result.recommendation = Recommendation(intent, at, evidence)
    BY <2>1 DEF Evaluate
  <2>. HIDE DEF at
  <2>3. /\ HealthyCandidates(intent, at, evidence) # {}
        /\ to = Chosen(intent, at, evidence)
    BY <2>2, RecommendationCases, RecommendShape
  <2>4. PICK k \in HealthyCandidates(intent, at, evidence) : to = AmountAt(intent, evidence, k)
    BY <2>1, <2>3, ChosenIsBest DEF Asked
  <2>5. Cohort(intent, to, at, evidence).healthy
    BY <2>4 DEF HealthyCandidates
  <2>6. /\ final.action = "shield" /\ final.account = User /\ final.token = intent.token
        /\ final.amount = to
    BY DEF ExactIntent
  <2>. HIDE DEF to, final
  <2>7. Cohort(final, to, at, evidence) = Cohort(intent, to, at, evidence)
    BY <2>1, <2>6 DEF Cohort, ActorOf, ObservationsFor, Asked
  <2>8. Evaluate(final, at, evidence).decision = "ALLOW"
    BY <2>1, <2>5, <2>6, <2>7, LiveDepositAllowed
  <2>. QED
    BY <2>8 DEF final, to, at
<1>. QED
  BY VerdictInvariant, <1>1, PTL

---------------------------------------------------------------------------
(* Public cover *)

(* What is wrong with a cohort is the same for all who are not in it.        *)
LEMMA FailuresOfNewcomers ==
  ASSUME NEW s, 0 \notin DOMAIN s, NEW L, IsFiniteSet(L), NEW D, L \subseteq D, D \subseteq DOMAIN s,
         NEW own, NEW other, own.timestamp = other.timestamp,
         own.actor \notin ActorsOf(s, L), other.actor \notin ActorsOf(s, L)
  PROVE  Failures(Joined(s, own), L \cup {0}, D \cup {0})
         = Failures(Joined(s, other), L \cup {0}, D \cup {0})
<1>. DEFINE A == ActorsOf(s, L)
            all == Joined(s, own)
            P == L \cup {0}
<1>1. ASSUME NEW x, x.actor \notin A
      PROVE  /\ ActorsOf(Joined(s, x), P) = A \cup {x.actor}
             /\ Cardinality(ActorsOf(Joined(s, x), P)) = Cardinality(A) + 1
             /\ \A a \in A : UsesBy(Joined(s, x), P, a) = UsesBy(s, L, a)
             /\ UsesBy(Joined(s, x), P, x.actor) = {0}
  <2>1. Joined(s, x)[0] = x /\ \A i \in L : Joined(s, x)[i] = s[i] /\ i # 0
    BY DEF Joined
  <2>2. ActorsOf(Joined(s, x), P) = A \cup {x.actor}
    BY <2>1 DEF ActorsOf
  <2>3. IsFiniteSet(A)
    <3>. DEFINE f == [i \in L |-> s[i].actor]
    <3>1. f \in Surjection(L, A)
      BY DEF Surjection, ActorsOf
    <3>. QED
      BY <3>1, FS_Surjection
  <2>4. Cardinality(A \cup {x.actor}) = Cardinality(A) + 1
    BY <1>1, <2>3, FS_AddElement
  <2>5. \A a \in A : UsesBy(Joined(s, x), P, a) = UsesBy(s, L, a)
    BY <1>1, <2>1 DEF UsesBy
  <2>6. UsesBy(Joined(s, x), P, x.actor) = {0}
    BY <1>1, <2>1 DEF UsesBy, ActorsOf
  <2>. QED
    BY <2>2, <2>4, <2>5, <2>6
<1>2. ASSUME NEW x, x.actor \notin A
      PROVE  TopCount(Joined(s, x), P) = Max({Cardinality(UsesBy(s, L, a)) : a \in A} \cup {Cardinality({0})})
  <2>. DEFINE c(a) == Cardinality(UsesBy(Joined(s, x), P, a))
  <2>1. {c(a) : a \in ActorsOf(Joined(s, x), P)} = {c(a) : a \in A} \cup {c(x.actor)}
    BY <1>1, <1>2
  <2>2. c(x.actor) = Cardinality({0}) /\ \A a \in A : c(a) = Cardinality(UsesBy(s, L, a))
    BY <1>1, <1>2
  <2>3. {c(a) : a \in A} = {Cardinality(UsesBy(s, L, a)) : a \in A}
    BY <2>2
  <2>. QED
    BY <2>1, <2>2, <2>3 DEF TopCount
<1>3. \A i \in D \cup {0} : Joined(s, own)[i].timestamp = Joined(s, other)[i].timestamp
  BY DEF Joined
<1>4. /\ DaysOf(Joined(s, own), D \cup {0}) = DaysOf(Joined(s, other), D \cup {0})
      /\ TimesOf(Joined(s, own), D \cup {0}) = TimesOf(Joined(s, other), D \cup {0})
  BY <1>3 DEF DaysOf, TimesOf
<1>5. /\ Cardinality(ActorsOf(Joined(s, own), P)) = Cardinality(ActorsOf(Joined(s, other), P))
      /\ TopCount(Joined(s, own), P) = TopCount(Joined(s, other), P)
  BY <1>1, <1>2
<1>. HIDE DEF P
<1>6. Failures(Joined(s, own), P, D \cup {0}) = Failures(Joined(s, other), P, D \cup {0})
  BY <1>4, <1>5 DEF Failures
<1>. QED
  BY <1>6 DEF P

LEMMA CohortOfNewcomers ==
  ASSUME NEW e \in Snapshot, NEW at, NEW a, NEW i, NEW j, i.action = j.action, i.token = j.token,
         \A k \in DOMAIN ObservationsFor(i, e) :
           LET o == ObservationsFor(i, e)[k]
           IN o.amount = a /\ Within(o, at, CohortSeconds) => o.actor \notin {ActorOf(i), ActorOf(j)}
  PROVE  Cohort(i, a, at, e) = Cohort(j, a, at, e)
<1>. DEFINE s == ObservationsFor(i, e)
            M == Matching(s, i.token, a, at)
            L == {k \in M : Within(s[k], at, CohortSeconds)}
            own(q) == [timestamp |-> at, actor |-> ActorOf(q), token |-> i.token, amount |-> a]
<1>1. s \in Seq(Observation)
  BY DEF ObservationsFor, Snapshot
<1>2. ObservationsFor(j, e) = s
  BY DEF ObservationsFor
<1>3. L \subseteq M /\ M \subseteq DOMAIN s
  BY DEF Matching
<1>4. 0 \notin DOMAIN s /\ IsFiniteSet(L)
  <2>. HIDE DEF s, L, M
  <2>1. 0 \notin DOMAIN s /\ IsFiniteSet(DOMAIN s)
    BY <1>1, PastFinite
  <2>. QED
    BY <1>3, <2>1, FS_Subset
<1>5. ActorOf(i) \notin ActorsOf(s, L) /\ ActorOf(j) \notin ActorsOf(s, L)
  BY DEF ActorsOf, Matching
<1>6. /\ own(i).timestamp = own(j).timestamp
      /\ own(i).actor = ActorOf(i) /\ own(j).actor = ActorOf(j)
  OBVIOUS
<1>7. Failures(Joined(s, own(i)), L \cup {0}, M \cup {0}) = Failures(Joined(s, own(j)), L \cup {0}, M \cup {0})
  <2>. HIDE DEF s, L, M, own
  <2>. QED
    BY <1>3, <1>4, <1>5, <1>6, FailuresOfNewcomers
<1>. QED
  BY <1>2, <1>7 DEF Cohort, CohortFor

(* Two intents that differ in who acts, neither of whom is in the cohort or  *)
(* has just registered, fire the same signals.                               *)
LEMMA SignalsOfNewcomers ==
  ASSUME NEW e, NEW at, NEW i, NEW j,
         i.action = j.action, i.token = j.token, i.amount = j.amount,
         Cohort(i, i.amount, at, e) = Cohort(j, i.amount, at, e),
         ~RecentlyRegistered(i, at, e), ~RecentlyRegistered(j, at, e)
  PROVE  Signals(i, at, e) = Signals(j, at, e)
<1>1. Unused(i, at, e) = Unused(j, at, e) /\ Counterparts(i, at, e) = Counterparts(j, at, e)
  BY DEF Unused, Counterparts, ObservationsFor
<1>2. Cohort(i, i.amount, at, e) = Cohort(j, j.amount, at, e)
  OBVIOUS
<1>3. SignalsV14(i, at, e) = SignalsV14(j, at, e)
  BY <1>1, <1>2 DEF SignalsV14, Fires
<1>. QED
  BY <1>3 DEF Signals

(* The band of a cover cell is the band of a user who is not among its live  *)
(* users and has not just registered.                                        *)
THEOREM CoverHolds == Spec => []CoverHoldsForNewcomers
<1>1. TypeInv => CoverHoldsForNewcomers
  <2>. DEFINE rows == CoverRows(intent.action, intent.token, now, evidence)
              s == ObservationsFor(intent, evidence)
              mine(a) == ExactIntent(intent.action, User, intent.token, a, now)
              public(a) == ExactIntent(intent.action, Synthetic, intent.token, a,
                                       now + CoverDeadline)
  <2>. SUFFICES ASSUME TypeInv, NEW amount \in DOMAIN rows,
                       User \notin {o.actor : o \in {x \in Range(s) : x.amount = amount /\ Within(x, now, CohortSeconds)}},
                       ~RecentlyRegistered(mine(amount), now, evidence)
                PROVE  Evaluate(mine(amount), now, evidence).band = rows[amount].band
    BY DEF CoverHoldsForNewcomers
  <2>1. evidence \in Snapshot /\ User # Synthetic /\ Synthetic \notin Accounts
    BY SessionAssumption DEF TypeInv, TypeOK
  <2>2. rows[amount] = Evaluate(public(amount), now, evidence)
    BY DEF CoverRows, Rated
  <2>3. /\ mine(amount).action = intent.action /\ mine(amount).token = intent.token
        /\ mine(amount).amount = amount /\ ActorOf(mine(amount)) = User
        /\ mine(amount).account = User
        /\ public(amount).action = intent.action /\ public(amount).token = intent.token
        /\ public(amount).amount = amount /\ ActorOf(public(amount)) = Synthetic
        /\ public(amount).account = Synthetic
    BY DEF ExactIntent, ActorOf
  <2>. HIDE DEF rows, mine, public
  <2>4. ObservationsFor(mine(amount), evidence) = s
    BY <2>3 DEF ObservationsFor
  <2>5. s \in Seq(Observation)
    BY <2>1 DEF ObservationsFor, Snapshot
  <2>. HIDE DEF s
  <2>6. \A k \in DOMAIN s : s[k] \in Range(s) /\ s[k].actor \in Accounts
    <3>1. \A k \in DOMAIN s : s[k] \in Range(s) /\ s[k] \in Observation
      BY <2>5 DEF Range
    <3>. QED
      BY <3>1 DEF Observation
  <2>7. \A k \in DOMAIN s : s[k].amount = amount /\ Within(s[k], now, CohortSeconds)
                            => s[k].actor \notin {User, Synthetic}
    BY <2>1, <2>6
  <2>8. Cohort(mine(amount), amount, now, evidence) = Cohort(public(amount), amount, now, evidence)
    BY <2>1, <2>3, <2>4, <2>7, CohortOfNewcomers
  <2>9. ~RecentlyRegistered(public(amount), now, evidence)
    <3>1. evidence.registrations \in Seq([timestamp : Nat, actor : Accounts])
      BY <2>1 DEF Snapshot
    <3>2. \A r \in Range(evidence.registrations) : r.actor \in Accounts
      <4>. DEFINE T == [timestamp : Nat, actor : Accounts]
                  r == evidence.registrations
      <4>1. \A x \in T : x.actor \in Accounts
        OBVIOUS
      <4>2. \A k \in DOMAIN r : r[k] \in T
        <5>1. r \in Seq(T)
          BY <3>1
        <5>. HIDE DEF T, r
        <5>. QED
          BY <5>1
      <4>. HIDE DEF T
      <4>. QED
        BY <4>1, <4>2 DEF Range
    <3>. QED
      BY <2>1, <2>3, <3>2 DEF RecentlyRegistered
  <2>10. Signals(mine(amount), now, evidence) = Signals(public(amount), now, evidence)
    BY <2>3, <2>8, <2>9, SignalsOfNewcomers
  <2>11. \A i : Evaluate(i, now, evidence).band = BandFor(Signals(i, now, evidence))
    BY DEF Evaluate
  <2>. QED
    BY <2>2, <2>10, <2>11
<1>. QED
  BY TypeInvariant, <1>1, PTL

---------------------------------------------------------------------------
(* Bursts: times, a function on a finite set, are how many, and how many     *)
(* of them are not later than t.                                             *)

Count(times, t) == Cardinality(UpTo(times, t))

Times(D) == [D -> Nat]

LEMMA CountFacts ==
  ASSUME NEW D, IsFiniteSet(D), NEW times \in Times(D)
  PROVE  /\ Cardinality(D) \in Nat
         /\ \A t : IsFiniteSet(UpTo(times, t)) /\ Count(times, t) \in 0..Cardinality(D)
         /\ \A t, u \in Int : t <= u => Count(times, t) <= Count(times, u)
         /\ \A t \in Int : (\A x \in Range(times) : x <= t) => Count(times, t) = Cardinality(D)
<1>1. Cardinality(D) \in Nat
  BY FS_CardinalityType
<1>2. DOMAIN times = D /\ \A i \in D : times[i] \in Nat
  BY DEF Times
<1>3. ASSUME NEW t PROVE UpTo(times, t) \in SUBSET D
  BY <1>2 DEF UpTo
<1>4. ASSUME NEW t PROVE IsFiniteSet(UpTo(times, t)) /\ Count(times, t) \in 0..Cardinality(D)
  <2>1. IsFiniteSet(UpTo(times, t)) /\ Cardinality(UpTo(times, t)) <= Cardinality(D)
    BY <1>3, FS_Subset
  <2>2. Cardinality(UpTo(times, t)) \in Nat
    BY <2>1, FS_CardinalityType
  <2>. QED
    BY <1>1, <2>1, <2>2 DEF Count
<1>5. ASSUME NEW t \in Int, NEW u \in Int, t <= u PROVE Count(times, t) <= Count(times, u)
  <2>1. UpTo(times, t) \in SUBSET UpTo(times, u)
    BY <1>2, <1>5 DEF UpTo
  <2>. QED
    BY <1>4, <2>1, FS_Subset DEF Count
<1>6. ASSUME NEW t \in Int, \A x \in Range(times) : x <= t PROVE Count(times, t) = Cardinality(D)
  <2>1. UpTo(times, t) = D
    BY <1>2, <1>6 DEF UpTo, Range
  <2>. QED
    BY <2>1 DEF Count
<1>. QED
  BY <1>1, <1>4, <1>5, <1>6

(* The k-th timestamp is not later than t when at least k are not.           *)
LEMMA OrderedRanks ==
  ASSUME NEW D, IsFiniteSet(D), NEW times \in Times(D)
  PROVE  /\ Len(Ordered(times)) = Cardinality(D)
         /\ \A k \in 1..Cardinality(D) : /\ Ordered(times)[k] \in Nat
                                         /\ Ordered(times)[k] \in Range(times)
         /\ \A k \in 1..Cardinality(D), t \in Int : Ordered(times)[k] <= t <=> k <= Count(times, t)
<1>. DEFINE n == Cardinality(D)
            S(k) == {t \in Range(times) : k <= Cardinality(UpTo(times, t))}
            o == [k \in 1..n |-> Min(S(k))]
<1>1. DOMAIN times = D /\ \A i \in D : times[i] \in Nat
  BY DEF Times
<1>2. Range(times) \in SUBSET Nat /\ IsFiniteSet(Range(times))
  <2>1. times \in Surjection(D, Range(times))
    BY <1>1 DEF Surjection, Range, Times
  <2>2. IsFiniteSet(Range(times))
    BY <2>1, FS_Surjection
  <2>. QED
    BY <1>1, <2>2 DEF Range
<1>3. n \in Nat
  BY CountFacts
<1>4. ASSUME NEW k \in 1..n, NEW t \in Int, k <= Count(times, t)
      PROVE  \E m \in S(k) : m <= t
  <2>. DEFINE T == {times[i] : i \in UpTo(times, t)}
  <2>1. UpTo(times, t) # {}
    BY <1>3, <1>4, FS_EmptySet DEF Count
  <2>2. T \subseteq Range(times) /\ T # {} /\ \A x \in T : x <= t
    BY <1>1, <2>1 DEF UpTo, Range
  <2>3. T \in SUBSET Int /\ IsFiniteSet(T)
    <3>. HIDE DEF T
    <3>. QED
      BY <1>2, <2>2, FS_Subset
  <2>4. Max(T) \in T /\ \A y \in T : y <= Max(T)
    <3>. HIDE DEF T
    <3>. QED
      BY <2>2, <2>3, GreatestExists
  <2>5. \A i \in UpTo(times, t) : times[i] <= Max(T)
    BY <2>4
  <2>. DEFINE m == Max(T)
  <2>6. m \in Range(times) /\ m <= t /\ m \in Nat
    <3>. HIDE DEF T
    <3>. QED
      BY <1>2, <2>2, <2>4
  <2>. HIDE DEF m
  <2>7. \A i \in UpTo(times, t) : times[i] <= m
    BY <2>5 DEF m
  <2>8. UpTo(times, m) = UpTo(times, t)
    <3>1. \A i \in D : times[i] <= m => times[i] <= t
      BY <1>1, <2>6
    <3>. QED
      BY <1>1, <2>7, <3>1 DEF UpTo
  <2>. QED
    BY <1>4, <2>6, <2>8 DEF Count
<1>5. ASSUME NEW k \in 1..n
      PROVE  Min(S(k)) \in S(k) /\ \A y \in S(k) : Min(S(k)) <= y
  <2>1. \E t \in Int : k <= Count(times, t)
    <3>1. Range(times) # {}
      <4>1. D # {}
        BY <1>3, FS_EmptySet
      <4>. QED
        BY <1>1, <4>1 DEF Range
    <3>2. Max(Range(times)) \in Int /\ \A x \in Range(times) : x <= Max(Range(times))
      BY <1>2, <3>1, GreatestExists
    <3>3. Count(times, Max(Range(times))) = n
      BY <3>2, CountFacts
    <3>. QED
      BY <1>3, <3>2, <3>3
  <2>2. S(k) # {}
    BY <1>4, <2>1
  <2>3. S(k) \in SUBSET Int /\ IsFiniteSet(S(k))
    <3>1. S(k) \in SUBSET Range(times)
      OBVIOUS
    <3>. HIDE DEF S
    <3>. QED
      BY <1>2, <3>1, FS_Subset
  <2>. HIDE DEF S
  <2>. QED
    BY <2>2, <2>3, GreatestExists
<1>6. Ordered(times) = o /\ Len(o) = n /\ \A k \in 1..n : o[k] = Min(S(k))
  <2>1. \A k \in 1..n : Min(S(k)) \in Nat
    <3>1. \A k : S(k) \subseteq Nat
      BY <1>2
    <3>. HIDE DEF S
    <3>. QED
      BY <1>5, <3>1
  <2>2. o \in Seq(Nat) /\ Len(o) = n
    <3>. HIDE DEF S
    <3>. QED
      BY <1>3, <2>1
  <2>3. Ordered(times) = <<>> \o o
    BY <1>1 DEF Ordered
  <2>4. <<>> \o o = o
    <3>. HIDE DEF o
    <3>. QED
      BY <2>2, ConcatEmptySeq
  <2>. QED
    BY <2>2, <2>3, <2>4
<1>. HIDE DEF o
<1>7. ASSUME NEW k \in 1..n, NEW t \in Int
      PROVE  Min(S(k)) \in Nat /\ Min(S(k)) \in Range(times) /\ (Min(S(k)) <= t <=> k <= Count(times, t))
  <2>1. Min(S(k)) \in Range(times) /\ k <= Count(times, Min(S(k)))
    BY <1>5 DEF Count
  <2>. DEFINE m == Min(S(k))
  <2>2. m \in Nat /\ m \in Range(times)
    BY <1>2, <2>1
  <2>3. k <= Count(times, t) => m <= t
    <3>1. \A y \in S(k) : m <= y /\ y \in Nat
      BY <1>2, <1>5
    <3>. HIDE DEF m, S
    <3>. QED
      BY <1>4, <2>2, <3>1
  <2>4. k <= Count(times, m)
    BY <2>1
  <2>. HIDE DEF m, S
  <2>5. m <= t => k <= Count(times, t)
    <3>1. m <= t => Count(times, m) <= Count(times, t)
      BY <2>2, CountFacts
    <3>2. Count(times, m) \in Nat /\ Count(times, t) \in Nat
      BY <1>3, CountFacts
    <3>. QED
      BY <1>3, <2>4, <3>1, <3>2
  <2>. QED
    BY <2>2, <2>3, <2>5 DEF m
<1>8. \A k \in 1..n : Min(S(k)) \in Nat /\ Min(S(k)) \in Range(times)
  <2>1. 0 \in Int
    OBVIOUS
  <2>. HIDE DEF S
  <2>. QED
    BY <1>7, <2>1
<1>. HIDE DEF S
<1>. QED
  BY <1>6, <1>7, <1>8

(* What one turn of the outer loop makes of the turns before. *)
Turn(ordered, f, left) ==
  IF left = 0 THEN [right |-> 1, maximum |-> 0]
  ELSE LET previous == f[left - 1]
           right == AdvanceRight(ordered, left, previous.right)
       IN [right   |-> right,
           maximum |-> IF right - left > previous.maximum
                       THEN right - left ELSE previous.maximum]

(* The scan is whatever satisfies its recursion, if only one function does.  *)
LEMMA ScanIsUnique ==
  ASSUME NEW ordered, Len(ordered) \in Nat,
         NEW g, g = [left \in 0..Len(ordered) |-> Turn(ordered, g, left)]
  PROVE  Scan(ordered) = g
<1>. DEFINE n == Len(ordered)
            s == Scan(ordered)
<1>1. s = [left \in 0..n |-> Turn(ordered, s, left)]
  BY DEF Scan, Turn
<1>2. SUFFICES ASSUME NEW bad \in 0..n, s[bad] # g[bad] PROVE FALSE
  <2>1. DOMAIN s = 0..n /\ DOMAIN g = 0..n
    <3>. HIDE DEF s
    <3>. QED
      BY <1>1
  <2>. HIDE DEF s
  <2>2. \A l \in 0..n : s[l] = g[l]
    BY <1>2
  <2>3. s = [l \in 0..n |-> s[l]] /\ g = [l \in 0..n |-> g[l]]
    BY <1>1, <2>1
  <2>4. [l \in 0..n |-> s[l]] = [l \in 0..n |-> g[l]]
    BY <2>2, Zenon
  <2>5. s = g
    <3>. HIDE DEF n
    <3>. QED
      BY <2>3, <2>4, Zenon
  <2>. QED
    BY <2>5 DEF s
<1>3. PICK l \in 0..n : s[l] # g[l] /\ \A k \in 0..n : s[k] # g[k] => l <= k
  <2>. DEFINE B == {k \in 0..n : s[k] # g[k]}
  <2>1. B \in SUBSET Int /\ B # {} /\ IsFiniteSet(B)
    <3>1. IsFiniteSet(0..n) /\ B \in SUBSET (0..n)
      BY FS_Interval
    <3>2. B # {} /\ B \in SUBSET Int
      BY <1>2
    <3>. HIDE DEF B
    <3>. QED
      BY <3>1, <3>2, FS_Subset
  <2>2. Min(B) \in B /\ \A y \in B : Min(B) <= y
    <3>. HIDE DEF B
    <3>. QED
      BY <2>1, GreatestExists
  <2>. QED
    BY <2>2
<1>. HIDE DEF s
<1>4. \A k \in 0..n : s[k] = Turn(ordered, s, k) /\ g[k] = Turn(ordered, g, k)
  BY <1>1
<1>5. l = 0 \/ s[l - 1] = g[l - 1]
  BY <1>3
<1>6. Turn(ordered, s, l) = Turn(ordered, g, l)
  BY <1>5 DEF Turn
<1>. QED
  BY <1>3, <1>4, <1>6

(* Where the scan stops for the l-th time: after all times within a window.  *)
Stop(times, l) == IF l = 0 THEN 1 ELSE Count(times, Ordered(times)[l] + CohortSeconds) + 1

LEMMA StopFacts ==
  ASSUME NEW D, IsFiniteSet(D), NEW times \in Times(D)
  PROVE  /\ \A l \in 0..Cardinality(D) : Stop(times, l) \in 1..(Cardinality(D) + 1)
         /\ \A l \in 1..Cardinality(D) : Stop(times, l - 1) <= Stop(times, l)
<1>. DEFINE n == Cardinality(D)
            o == Ordered(times)
<1>1. n \in Nat /\ CohortSeconds \in Nat
  BY CountFacts, EngineAssumption
<1>2. \A k \in 1..n : o[k] \in Nat /\ \A t \in Int : o[k] <= t <=> k <= Count(times, t)
  BY OrderedRanks
<1>3. \A t : Count(times, t) \in 0..n
  BY CountFacts
<1>4. \A l \in 0..n : Stop(times, l) \in 1..(n + 1)
  BY <1>1, <1>3 DEF Stop
<1>5. ASSUME NEW l \in 1..n PROVE Stop(times, l - 1) <= Stop(times, l)
  <2>1. CASE l = 1
    BY <1>1, <1>4, <2>1 DEF Stop
  <2>2. CASE l > 1
    <3>1. l - 1 \in 1..n /\ l - 1 # 0 /\ l # 0
      BY <1>1, <2>2
    <3>2. o[l - 1] <= o[l]
      <4>1. l <= Count(times, o[l])
        BY <1>2
      <4>. HIDE DEF o
      <4>. QED
        BY <1>1, <1>2, <1>3, <3>1, <4>1
    <3>3. o[l - 1] + CohortSeconds \in Int /\ o[l] + CohortSeconds \in Int
          /\ o[l - 1] + CohortSeconds <= o[l] + CohortSeconds
      BY <1>1, <1>2, <3>1, <3>2
    <3>4. Count(times, o[l - 1] + CohortSeconds) <= Count(times, o[l] + CohortSeconds)
      <4>. HIDE DEF o
      <4>. QED
        BY <3>3, CountFacts
    <3>. HIDE DEF n
    <3>. QED
      BY <1>3, <3>1, <3>4, <1>1 DEF Stop
  <2>. QED
    BY <1>1, <2>1, <2>2
<1>. QED
  BY <1>4, <1>5

LEMMA AdvanceStops ==
  ASSUME NEW D, IsFiniteSet(D), NEW times \in Times(D), NEW l \in 1..Cardinality(D)
  PROVE  AdvanceRight(Ordered(times), l, Stop(times, l - 1)) = Stop(times, l)
<1>. DEFINE n == Cardinality(D)
            o == Ordered(times)
            from == Stop(times, l - 1)
            E == Stop(times, l)
<1>1. n \in Nat /\ CohortSeconds \in Nat /\ Len(o) = n
  BY CountFacts, EngineAssumption, OrderedRanks
<1>2. from \in 1..(n + 1) /\ E \in 1..(n + 1) /\ from <= E
  <2>1. l - 1 \in 0..n /\ l \in 0..n
    BY <1>1
  <2>. QED
    BY <2>1, StopFacts
<1>3. \A k \in 1..n : o[k] \in Nat
  BY OrderedRanks
<1>4. \A k \in 1..n : o[k] - o[l] <= CohortSeconds <=> k <= E - 1
  <2>1. o[l] + CohortSeconds \in Int
    BY <1>1, <1>3
  <2>2. \A k \in 1..n : o[k] <= o[l] + CohortSeconds <=> k <= Count(times, o[l] + CohortSeconds)
    <3>. HIDE DEF o
    <3>. QED
      BY <2>1, OrderedRanks DEF o
  <2>3. E = Count(times, o[l] + CohortSeconds) + 1 /\ Count(times, o[l] + CohortSeconds) \in Nat
    BY <1>1, CountFacts DEF Stop
  <2>4. \A k \in 1..n : o[k] - o[l] <= CohortSeconds <=> o[k] <= o[l] + CohortSeconds
    BY <1>1, <1>3
  <2>. HIDE DEF E, o
  <2>. QED
    BY <2>2, <2>3, <2>4
<1>. HIDE DEF n, o, from, E
<1>. DEFINE stops(r) == /\ \A i \in from..(r - 1) : o[i] - o[l] <= CohortSeconds
                        /\ r > Len(o) \/ o[r] - o[l] > CohortSeconds
<1>5. \A k \in 1..n : o[k] - o[l] \in Int
  <2>1. l \in 1..n
    BY DEF n
  <2>. QED
    BY <1>3, <2>1
<1>6. E \in from..(Len(o) + 1) /\ stops(E)
  BY <1>1, <1>2, <1>4, <1>5
<1>7. ASSUME NEW r \in from..(Len(o) + 1), stops(r) PROVE r = E
  <2>1. r <= E
    <3>1. r = from \/ (r - 1 \in from..(r - 1) /\ r - 1 \in 1..n)
      BY <1>1, <1>2
    <3>2. r - 1 \in from..(r - 1) => o[r - 1] - o[l] <= CohortSeconds
      BY <1>7
    <3>. QED
      BY <1>1, <1>2, <1>4, <3>1, <3>2
  <2>2. r >= E
    <3>1. CASE r > Len(o)
      BY <1>1, <1>2, <3>1
    <3>2. CASE ~(r > Len(o))
      <4>1. r \in 1..n /\ o[r] - o[l] > CohortSeconds
        BY <1>1, <1>2, <1>7, <3>2
      <4>2. ~(r <= E - 1)
        BY <1>1, <1>4, <1>5, <4>1
      <4>. QED
        BY <1>1, <1>2, <4>1, <4>2
    <3>. QED
      BY <3>1, <3>2
  <2>. QED
    BY <1>1, <1>2, <2>1, <2>2
<1>8. AdvanceRight(o, l, from) = CHOOSE r \in from..(Len(o) + 1) : stops(r)
  BY DEF AdvanceRight
<1>. HIDE DEF stops
<1>9. AdvanceRight(o, l, from) = E
  BY <1>6, <1>7, <1>8
<1>. QED
  BY <1>9 DEF o, from, E

(* The most times in a window that starts at one of the first l.             *)
Widths(times, l) == {0} \cup {Stop(times, k) - k : k \in 1..l}

LEMMA WidthFacts ==
  ASSUME NEW D, IsFiniteSet(D), NEW times \in Times(D), NEW l \in 0..Cardinality(D)
  PROVE  /\ Widths(times, l) \in SUBSET Int /\ IsFiniteSet(Widths(times, l))
         /\ Max(Widths(times, l)) \in Widths(times, l)
         /\ Max(Widths(times, l)) \in Int
         /\ \A x \in Widths(times, l) : x <= Max(Widths(times, l))
<1>. DEFINE W == Widths(times, l)
            f == [k \in 1..l |-> Stop(times, k) - k]
            V == {Stop(times, k) - k : k \in 1..l}
<1>1. Cardinality(D) \in Nat
  BY CountFacts
<1>2. \A k \in 1..l : k \in Int /\ Stop(times, k) \in Int
  <2>1. \A k \in 1..l : k \in 0..Cardinality(D)
    BY <1>1
  <2>. QED
    BY <1>1, <2>1, StopFacts
<1>3. V \in SUBSET Int
  BY <1>2
<1>4. IsFiniteSet(V)
  <2>1. f \in Surjection(1..l, V)
    BY DEF Surjection
  <2>2. IsFiniteSet(1..l)
    BY <1>1, FS_Interval
  <2>. HIDE DEF f, V
  <2>. QED
    BY <2>1, <2>2, FS_Surjection
<1>5. W = V \cup {0}
  BY DEF Widths
<1>. HIDE DEF V, W
<1>6. W \in SUBSET Int /\ IsFiniteSet(W) /\ W # {}
  BY <1>3, <1>4, <1>5, FS_AddElement
<1>7. Max(W) \in W /\ \A y \in W : y <= Max(W)
  BY <1>6, GreatestExists
<1>. QED
  BY <1>6, <1>7 DEF W

LEMMA WidthGrows ==
  ASSUME NEW D, IsFiniteSet(D), NEW times \in Times(D), NEW l \in 1..Cardinality(D)
  PROVE  Max(Widths(times, l)) = IF Stop(times, l) - l > Max(Widths(times, l - 1))
                                 THEN Stop(times, l) - l ELSE Max(Widths(times, l - 1))
<1>1. Cardinality(D) \in Nat
  BY CountFacts
<1>2. l \in 0..Cardinality(D) /\ l - 1 \in 0..Cardinality(D)
  BY <1>1
<1>. DEFINE x == Stop(times, l) - l
            U == Widths(times, l - 1)
            W == Widths(times, l)
<1>3. W = U \cup {x}
  <2>1. 1..l = (1..(l - 1)) \cup {l}
    BY <1>1
  <2>. QED
    BY <2>1 DEF Widths
<1>4. /\ Max(W) \in W /\ Max(W) \in Int /\ \A y \in W : y <= Max(W)
      /\ Max(U) \in U /\ Max(U) \in Int /\ \A y \in U : y <= Max(U)
  BY <1>2, WidthFacts
<1>5. x \in Int
  <2>1. Stop(times, l) \in 1..(Cardinality(D) + 1)
    BY <1>2, StopFacts
  <2>. QED
    BY <1>1, <1>2, <2>1
<1>. HIDE DEF x, U, W
<1>6. Max(W) = IF x > Max(U) THEN x ELSE Max(U)
  <2>1. x <= Max(W) /\ Max(U) <= Max(W)
    BY <1>3, <1>4
  <2>2. Max(W) = x \/ Max(W) <= Max(U)
    BY <1>3, <1>4
  <2>. QED
    BY <1>4, <1>5, <2>1, <2>2
<1>. QED
  BY <1>6 DEF x, U, W

LEMMA BurstIsWidest ==
  ASSUME NEW D, IsFiniteSet(D), NEW times \in Times(D)
  PROVE  MaximumBurst(times) = Max(Widths(times, Cardinality(D)))
<1>. DEFINE n == Cardinality(D)
            o == Ordered(times)
            g == [left \in 0..n |-> [right |-> Stop(times, left), maximum |-> Max(Widths(times, left))]]
<1>1. n \in Nat /\ Len(o) = n
  BY CountFacts, OrderedRanks
<1>2. Max(Widths(times, 0)) = 0 /\ Stop(times, 0) = 1
  <2>1. Widths(times, 0) = {0}
    BY DEF Widths
  <2>2. 0 \in 0..n
    BY <1>1
  <2>3. Max(Widths(times, 0)) \in Widths(times, 0)
    BY <2>2, WidthFacts
  <2>. QED
    BY <2>1, <2>3 DEF Stop
<1>3. ASSUME NEW left \in 0..n PROVE g[left] = Turn(o, g, left)
  <2>1. CASE left = 0
    BY <1>2, <2>1 DEF Turn
  <2>2. CASE left # 0
    <3>1. left \in 1..n /\ left - 1 \in 0..n
      BY <1>1, <2>2
    <3>2. g[left - 1].right = Stop(times, left - 1) /\ g[left - 1].maximum = Max(Widths(times, left - 1))
      BY <3>1
    <3>3. AdvanceRight(o, left, Stop(times, left - 1)) = Stop(times, left)
      BY <3>1, AdvanceStops
    <3>4. Max(Widths(times, left)) = IF Stop(times, left) - left > Max(Widths(times, left - 1))
                                     THEN Stop(times, left) - left ELSE Max(Widths(times, left - 1))
      BY <3>1, WidthGrows
    <3>5. g[left] = [right |-> Stop(times, left), maximum |-> Max(Widths(times, left))]
      OBVIOUS
    <3>. HIDE DEF g, o
    <3>. QED
      BY <2>2, <3>2, <3>3, <3>4, <3>5 DEF Turn
  <2>. QED
    BY <2>1, <2>2
<1>4. g = [left \in 0..Len(o) |-> Turn(o, g, left)]
  <2>1. g = [left \in 0..n |-> g[left]]
    OBVIOUS
  <2>. HIDE DEF g, o
  <2>. QED
    BY <1>1, <1>3, <2>1
<1>5. Scan(o) = g
  <2>. HIDE DEF g, o
  <2>. QED
    BY <1>1, <1>4, ScanIsUnique
<1>6. n \in 0..n
  BY <1>1
<1>. QED
  BY <1>1, <1>5, <1>6 DEF MaximumBurst

(* How many times lie in the window of one cohort that starts at t.          *)
InWindow(times, t) == {i \in DOMAIN times : times[i] \in t..(t + CohortSeconds)}

(* maximumBurstShare: no window holds more than the scan finds, and the scan *)
(* finds what one holds.                                                     *)
THEOREM BurstIsMaximum ==
  ASSUME NEW D, IsFiniteSet(D), NEW times \in Times(D)
  PROVE  /\ MaximumBurst(times) \in Int /\ 0 <= MaximumBurst(times)
         /\ \A t \in Int : /\ Cardinality(InWindow(times, t)) \in Nat
                           /\ Cardinality(InWindow(times, t)) <= MaximumBurst(times)
         /\ \/ MaximumBurst(times) = 0
            \/ \E t \in Range(times) : MaximumBurst(times) <= Cardinality(InWindow(times, t))
<1>. DEFINE n == Cardinality(D)
            o == Ordered(times)
            C == CohortSeconds
            W == Widths(times, n)
            B == MaximumBurst(times)
<1>1. n \in Nat /\ C \in Nat /\ n \in 0..n
  BY CountFacts, EngineAssumption
<1>2. /\ \A k \in 1..n : o[k] \in Nat /\ o[k] \in Range(times)
      /\ \A k \in 1..n, t \in Int : o[k] <= t <=> k <= Count(times, t)
  BY OrderedRanks
<1>3. /\ \A t : IsFiniteSet(UpTo(times, t)) /\ Count(times, t) \in 0..n
      /\ \A t, u \in Int : t <= u => Count(times, t) <= Count(times, u)
  BY CountFacts
<1>4. B \in W /\ B \in Int /\ \A x \in W : x <= B
  BY <1>1, BurstIsWidest, WidthFacts
<1>5. ASSUME NEW t \in Int
      PROVE  Cardinality(InWindow(times, t)) = Count(times, t + C) - Count(times, t - 1)
  <2>1. DOMAIN times = D /\ \A i \in D : times[i] \in Nat
    BY DEF Times
  <2>2. InWindow(times, t) = UpTo(times, t + C) \ UpTo(times, t - 1)
    BY <1>1, <2>1 DEF InWindow, UpTo
  <2>3. UpTo(times, t + C) \cap UpTo(times, t - 1) = UpTo(times, t - 1)
    BY <1>1, <2>1 DEF UpTo
  <2>. QED
    BY <1>3, <2>2, <2>3, FS_Difference DEF Count
<1>6. \A k \in 1..n : Stop(times, k) = Count(times, o[k] + C) + 1
  BY <1>1 DEF Stop
<1>7. 0 \in W /\ \A k \in 1..n : (Count(times, o[k] + C) + 1) - k \in W
  <2>1. 0 \in W /\ \A k \in 1..n : Stop(times, k) - k \in W
    BY DEF Widths
  <2>2. \A k \in 1..n : Stop(times, k) - k = (Count(times, o[k] + C) + 1) - k
    BY <1>6, Zenon
  <2>. HIDE DEF W, n, o, C
  <2>. QED
    BY <2>1, <2>2, Zenon
<1>8. \A x \in W : x = 0 \/ \E k \in 1..n : x = (Count(times, o[k] + C) + 1) - k
  <2>1. \A x \in W : x = 0 \/ \E k \in 1..n : x = Stop(times, k) - k
    BY DEF Widths
  <2>2. \A k \in 1..n : Stop(times, k) - k = (Count(times, o[k] + C) + 1) - k
    BY <1>6, Zenon
  <2>. HIDE DEF W, n, o, C
  <2>. QED
    BY <2>1, <2>2, Zenon
<1>. HIDE DEF n, o, C, W, B
<1>9. ASSUME NEW t \in Int
      PROVE  /\ Cardinality(InWindow(times, t)) \in Nat
             /\ Cardinality(InWindow(times, t)) <= B
  <2>. DEFINE before == Count(times, t - 1)
              upTo   == Count(times, t + C)
  <2>1. before \in 0..n /\ upTo \in 0..n /\ before <= upTo
    BY <1>1, <1>3
  <2>2. Cardinality(InWindow(times, t)) = upTo - before
    BY <1>5
  <2>3. upTo - before <= B
    <3>1. CASE upTo = before
      <4>1. upTo - before = 0 /\ 0 <= B
        BY <1>4, <1>7, <2>1, <3>1
      <4>. QED
        BY <4>1
    <3>2. CASE upTo # before
      <4>. DEFINE k == before + 1
      <4>1. k \in 1..n
        BY <1>1, <2>1, <3>2
      <4>2. ~(k <= before)
        BY <2>1
      <4>3. ~(o[k] <= t - 1) /\ o[k] \in Nat
        BY <1>2, <4>1, <4>2
      <4>4. t <= o[k]
        BY <4>3
      <4>5. t + C \in Int /\ o[k] + C \in Int /\ t + C <= o[k] + C
        BY <1>1, <4>3, <4>4
      <4>6. upTo <= Count(times, o[k] + C) /\ Count(times, o[k] + C) \in 0..n
        BY <1>3, <4>5
      <4>7. (Count(times, o[k] + C) + 1) - k <= B
        BY <1>4, <1>7, <4>1
      <4>. HIDE DEF upTo, before
      <4>. QED
        BY <1>1, <1>4, <2>1, <4>6, <4>7
    <3>. QED
      BY <3>1, <3>2
  <2>. HIDE DEF upTo, before
  <2>. QED
    BY <1>1, <2>1, <2>2, <2>3
<1>10. B = 0 \/ \E t \in Range(times) : B <= Cardinality(InWindow(times, t))
  <2>. SUFFICES ASSUME B # 0 PROVE \E t \in Range(times) : B <= Cardinality(InWindow(times, t))
    OBVIOUS
  <2>1. PICK k \in 1..n : B = (Count(times, o[k] + C) + 1) - k
    BY <1>4, <1>8
  <2>2. o[k] \in Nat /\ o[k] \in Range(times)
    BY <1>2
  <2>3. ~(k <= Count(times, o[k] - 1))
    BY <1>2, <2>2
  <2>4. Cardinality(InWindow(times, o[k])) = Count(times, o[k] + C) - Count(times, o[k] - 1)
    BY <1>5, <2>2
  <2>5. Count(times, o[k] + C) \in 0..n /\ Count(times, o[k] - 1) \in 0..n
    BY <1>3
  <2>6. B <= Cardinality(InWindow(times, o[k]))
    BY <1>1, <2>1, <2>3, <2>4, <2>5
  <2>. QED
    BY <2>2, <2>6
<1>11. 0 <= B
  BY <1>4, <1>7
<1>. QED
  BY <1>4, <1>9, <1>10, <1>11 DEF B

LEMMA MaxIs ==
  ASSUME NEW S \in SUBSET Int, NEW m \in S, \A x \in S : x <= m
  PROVE  Max(S) = m
<1>1. Max(S) \in S /\ \A y \in S : Max(S) >= y
  <2>1. \E x \in S : \A y \in S : x >= y
    OBVIOUS
  <2>. QED
    BY <2>1 DEF Max
<1>2. Max(S) <= m /\ Max(S) >= m /\ Max(S) \in Int /\ m \in Int
  <2>. DEFINE x == Max(S)
  <2>1. x \in S /\ x >= m
    BY <1>1
  <2>. HIDE DEF x
  <2>. QED
    BY <2>1 DEF x
<1>. QED
  BY <1>2

(* The times of a finite set of uses that are all typed                      *)
LEMMA TimesOfTyped ==
  ASSUME NEW s, NEW D, \A i \in D : s[i].timestamp \in Nat
  PROVE  TimesOf(s, D) \in Times(D) /\ \A i \in D : TimesOf(s, D)[i] = s[i].timestamp
BY DEF TimesOf, Times

LEMMA MatchingTyped ==
  ASSUME NEW s \in Seq(Observation), NEW token, NEW amount, NEW at \in Nat
  PROVE  LET M == Matching(s, token, amount, at)
         IN /\ IsFiniteSet(M) /\ 0 \notin M /\ M \subseteq DOMAIN s
            /\ \A i \in M : s[i].timestamp \in Nat /\ s[i].timestamp < at
<1>. DEFINE M == Matching(s, token, amount, at)
<1>1. M \in SUBSET DOMAIN s /\ \A i \in M : Within(s[i], at, ObservationSeconds)
  BY DEF Matching
<1>2. IsFiniteSet(DOMAIN s) /\ 0 \notin DOMAIN s
  BY PastFinite
<1>. HIDE DEF M
<1>3. \A i \in M : s[i] \in Observation
  BY <1>1
<1>4. \A i \in M : s[i].timestamp \in Nat /\ s[i].timestamp < at
  BY <1>1, <1>3 DEF Within, Observation
<1>5. IsFiniteSet(M)
  BY <1>1, <1>2, FS_Subset
<1>. QED
  BY <1>1, <1>2, <1>4, <1>5 DEF M

(* The scan finds the largest number of uses inside a cohort window.         *)
THEOREM BurstIsBusiest == Spec => []BurstIsTheBusiestWindow
<1>1. TypeInv => BurstIsTheBusiestWindow
  <2>. SUFFICES ASSUME TypeInv, NEW s \in {evidence.deposits, evidence.withdrawals}, NEW amount \in Amounts
                PROVE  LET times == TimesOf(s, Matching(s, intent.token, amount, now))
                           inWindow(start) == {i \in DOMAIN times : times[i] \in start..(start + CohortSeconds)}
                       IN MaximumBurst(times) = Max({0} \cup {Cardinality(inWindow(t)) : t \in 0..now})
    BY DEF BurstIsTheBusiestWindow
  <2>. DEFINE M == Matching(s, intent.token, amount, now)
              times == TimesOf(s, M)
              B == MaximumBurst(times)
              S == {0} \cup {Cardinality(InWindow(times, t)) : t \in 0..now}
  <2>1. s \in Seq(Observation) /\ now \in Nat
    BY DEF TypeInv, TypeOK, Snapshot
  <2>2. IsFiniteSet(M) /\ \A i \in M : s[i].timestamp \in Nat /\ s[i].timestamp < now
    BY <2>1, MatchingTyped
  <2>3. times \in Times(M) /\ \A i \in M : times[i] = s[i].timestamp
    <3>. HIDE DEF M
    <3>. QED
      BY <2>2, TimesOfTyped
  <2>. HIDE DEF M, times
  <2>4. /\ B \in Int /\ 0 <= B
        /\ \A t \in Int : /\ Cardinality(InWindow(times, t)) \in Nat
                          /\ Cardinality(InWindow(times, t)) <= B
        /\ B = 0 \/ \E t \in Range(times) : B <= Cardinality(InWindow(times, t))
    BY <2>2, <2>3, BurstIsMaximum
  <2>5. Range(times) \subseteq 0..now
    BY <2>1, <2>2, <2>3 DEF Times, Range
  <2>. HIDE DEF B
  <2>6. S \in SUBSET Int /\ \A x \in S : x <= B
    <3>1. \A t \in 0..now : t \in Int
      BY <2>1
    <3>2. \A x \in S : x = 0 \/ \E t \in 0..now : x = Cardinality(InWindow(times, t))
      OBVIOUS
    <3>. HIDE DEF S
    <3>. QED
      BY <2>4, <3>1, <3>2
  <2>7. B \in S
    <3>1. CASE B = 0
      BY <3>1
    <3>2. CASE B # 0
      <4>1. PICK t \in 0..now : B <= Cardinality(InWindow(times, t))
        BY <2>4, <2>5, <3>2
      <4>2. B = Cardinality(InWindow(times, t))
        BY <2>4, <4>1
      <4>. QED
        BY <4>2
    <3>. QED
      BY <3>1, <3>2
  <2>8. Max(S) = B
    <3>. HIDE DEF S
    <3>. QED
      BY <2>6, <2>7, MaxIs
  <2>. QED
    BY <2>8 DEF B, times, M, InWindow
<1>. QED
  BY TypeInvariant, <1>1, PTL

(* A cohort all of whose uses are live is one burst.                         *)
LEMMA HealthyIsOld ==
  ASSUME NEW e \in Snapshot, NEW i, NEW a, NEW at \in Nat, Cohort(i, a, at, e).healthy
  PROVE  LET s == ObservationsFor(i, e)
         IN \E k \in Matching(s, i.token, a, at) : s[k].timestamp < at - CohortSeconds
<1>. DEFINE s == ObservationsFor(i, e)
            M == Matching(s, i.token, a, at)
            L == {k \in M : Within(s[k], at, CohortSeconds)}
            own == [timestamp |-> at, actor |-> ActorOf(i), token |-> i.token, amount |-> a]
            all == Joined(s, own)
            D == M \cup {0}
            times == TimesOf(all, D)
<1>1. SUFFICES ASSUME \A k \in M : ~(s[k].timestamp < at - CohortSeconds) PROVE FALSE
  OBVIOUS
<1>2. s \in Seq(Observation) /\ CohortSeconds \in Nat
  BY EngineAssumption DEF ObservationsFor, Snapshot
<1>3. /\ IsFiniteSet(M) /\ 0 \notin M /\ M \subseteq DOMAIN s
      /\ \A k \in M : s[k].timestamp \in Nat /\ s[k].timestamp < at
  <2>. HIDE DEF s
  <2>. QED
    BY <1>2, MatchingTyped
<1>4. ~(5 * MaximumBurst(times) > 3 * Cardinality(D))
  <2>1. Failures(all, L \cup {0}, D) = {}
    BY DEF Cohort, CohortFor
  <2>. HIDE DEF s, M, L, own, all, D
  <2>. QED
    BY <2>1 DEF Failures
<1>5. all[0] = own /\ own.timestamp = at /\ \A k \in M : all[k] = s[k]
  <2>. HIDE DEF s, M
  <2>. QED
    BY <1>3 DEF Joined
<1>. HIDE DEF s, M, L, own, all
<1>6. IsFiniteSet(D) /\ Cardinality(D) \in Nat \ {0}
  <2>1. IsFiniteSet(D)
    BY <1>3, FS_AddElement
  <2>2. Cardinality(D) \in Nat /\ Cardinality(D) # 0
    BY <2>1, FS_CardinalityType, FS_EmptySet
  <2>. QED
    BY <2>1, <2>2
<1>7. \A k \in D : all[k].timestamp \in Nat /\ all[k].timestamp \in (at - CohortSeconds)..((at - CohortSeconds) + CohortSeconds)
  BY <1>1, <1>2, <1>3, <1>5
<1>8. times \in Times(D) /\ \A k \in D : times[k] = all[k].timestamp
  <2>. HIDE DEF D
  <2>. QED
    BY <1>7, TimesOfTyped
<1>. HIDE DEF times, D
<1>9. InWindow(times, at - CohortSeconds) = D
  BY <1>7, <1>8 DEF InWindow, Times
<1>10. /\ MaximumBurst(times) \in Int
       /\ \A t \in Int : Cardinality(InWindow(times, t)) <= MaximumBurst(times)
  BY <1>6, <1>8, BurstIsMaximum
<1>11. at - CohortSeconds \in Int
  BY <1>2
<1>12. Cardinality(D) <= MaximumBurst(times)
  BY <1>9, <1>10, <1>11
<1>. QED
  BY <1>4, <1>6, <1>10, <1>12

(* A healthy amount was also used before the live window.                    *)
THEOREM HealthyWasUsedBefore == Spec => []HealthyHasAPast
<1>1. TypeInv => HealthyHasAPast
  <2>. SUFFICES ASSUME TypeInv, NEW amount \in Amounts, Cohort(intent, amount, now, evidence).healthy
                PROVE  LET s == ObservationsFor(intent, evidence)
                       IN \E k \in Matching(s, intent.token, amount, now) :
                            s[k].timestamp < now - CohortSeconds
    BY DEF HealthyHasAPast, HealthyAt
  <2>1. evidence \in Snapshot /\ now \in Nat
    BY DEF TypeInv, TypeOK
  <2>. QED
    BY <2>1, HealthyIsOld
<1>. QED
  BY TypeInvariant, <1>1, PTL
=============================================================================
