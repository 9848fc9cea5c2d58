------------------------- MODULE AutoresearchProofs --------------------------
(***************************************************************************)
(* What a parameter search leaves behind, for any parameters, range,       *)
(* scores and number of iterations, wherever it raises or is killed: the   *)
(* file holds what was accepted, the baseline is its score, and no value   *)
(* is tried twice while one within reach is left.                          *)
(***************************************************************************)
EXTENDS Autoresearch, FiniteSetTheorems, TLAPS

ParamSets == [strategy: {"ema_crossover", "mean_reversion"}, vals: [Names -> Nat]]

SearchTyped ==
  /\ at \in {"down", "review", "score", "challenge", "baseline", "ideate", "judge", "finish",
            "ended", "idle"}
  /\ file \in ParamSets /\ params \in ParamSets /\ trial \in ParamSets
  /\ cursor \in Nat

\* The file is what was accepted wherever the search does not judge another one, and then
\* it is the one judged.
FileFollows ==
  /\ at \in {"baseline", "ideate", "finish"} \/ (at = "ended" /\ ~died) => file = params
  /\ at = "judge" => trial = file

\* What was tried is what the search remembers, or what it will read when it starts.
MemoryKept ==
  /\ tried = IF at = "down" THEN visitedFile ELSE visited
  /\ at \in {"ended", "idle"} /\ ~died => visitedFile = visited

SearchInv == SearchTyped /\ FileFollows /\ BaselineIsTheirs /\ MemoryKept

-----------------------------------------------------------------------------
(* The moves from a set of parameters. *)

LEMMA SpaceNames ==
  ASSUME NEW p
  PROVE  /\ Len(Space(p)) \in Nat \ {0} /\ DOMAIN Space(p) = 1 .. Len(Space(p))
         /\ \A j \in 1 .. Len(Space(p)) : Space(p)[j] \in Names
<1>1. ASSUME NEW s \in {EMA, MR}
      PROVE  /\ Len(s) \in Nat \ {0} /\ DOMAIN s = 1 .. Len(s)
             /\ \A j \in 1 .. Len(s) : s[j] \in Names
  <2>1. s \in Seq(Range(s)) /\ s # << >>
    BY SearchConstants
  <2>2. Len(s) \in Nat /\ Len(s) # 0 /\ DOMAIN s = 1 .. Len(s)
    BY <2>1
  <2>3. \A j \in 1 .. Len(s) : s[j] \in Range(s)
    BY <2>1, <2>2 DEF Range
  <2> QED
    BY <2>2, <2>3 DEF Names
<1>2. Space(p) \in {EMA, MR}
  BY DEF Space
<1> QED
  BY <1>1, <1>2

LEMMA ClampedNat ==
  ASSUME NEW v \in Int
  PROVE  Clamp(v) \in Nat
BY SearchConstants DEF Clamp

LEMMA MoveTyped ==
  ASSUME NEW p \in ParamSets, NEW n \in Names, NEW d \in Int
  PROVE  /\ Move(p, n, d).param = n /\ Move(p, n, d).new = Clamp(p.vals[n] + d)
         /\ Move(p, n, d).new \in Nat
<1>1. p.vals[n] \in Nat
  BY DEF ParamSets
<1> QED
  BY <1>1, ClampedNat DEF Move

LEMMA Remainder ==
  ASSUME NEW n \in Nat \ {0}, NEW a \in Int, NEW x \in 0 .. n - 1
  PROVE  (n * a + x) % n = x
OBVIOUS

LEMMA Quotient ==
  ASSUME NEW n \in Nat \ {0}, NEW c \in Nat
  PROVE  c = n * (c \div n) + (c % n) /\ c % n \in 0 .. n - 1 /\ c \div n \in Nat
OBVIOUS

\* Stepping on from the cursor, every place is come by.
LEMMA PlaceReached ==
  ASSUME NEW n \in Nat \ {0}, NEW c \in Nat, NEW j \in 1 .. n
  PROVE  \E q \in 0 .. n - 1 : ((c + q) % n) + 1 = j
<1> DEFINE a == c \div n
           r == c % n
<1>1. c = n * a + r /\ r \in 0 .. n - 1 /\ a \in Nat
  BY Quotient
<1> HIDE DEF a, r
<1>2. CASE j - 1 >= r
  <2>1. j - 1 - r \in 0 .. n - 1 /\ c + (j - 1 - r) = n * a + (j - 1)
    BY <1>1, <1>2
  <2>2. (n * a + (j - 1)) % n = j - 1
    BY <1>1, Remainder
  <2>3. ((c + (j - 1 - r)) % n) + 1 = j
    BY <2>1, <2>2
  <2> QED
    BY <2>1, <2>3
<1>3. CASE j - 1 < r
  <2>1. n * (a + 1) = n * a + n
    BY <1>1
  <2>2. j - 1 - r + n \in 0 .. n - 1 /\ c + (j - 1 - r + n) = n * (a + 1) + (j - 1)
    BY <1>1, <1>3, <2>1
  <2>3. (n * (a + 1) + (j - 1)) % n = j - 1
    BY <1>1, Remainder
  <2>4. ((c + (j - 1 - r + n)) % n) + 1 = j
    BY <2>2, <2>3
  <2> QED
    BY <2>2, <2>4
<1> QED
  BY <1>1, <1>2, <1>3

LEMMA NearMoves ==
  ASSUME NEW p \in ParamSets, cursor \in Nat, NEW k \in DOMAIN Near(p)
  PROVE  \E n \in Names, d \in Int : Near(p)[k] = Move(p, n, d)
<1> DEFINE l == Len(Space(p))
           place == ((cursor + (k - 1) \div 2) % l) + 1
<1>1. l \in Nat \ {0} /\ \A j \in 1 .. l : Space(p)[j] \in Names
  BY SpaceNames
<1>2. k \in 1 .. 2 * l /\ Near(p)[k] = Move(p, Space(p)[place], IF k % 2 = 1 THEN 1 ELSE -1)
  BY DEF Near
<1>3. (k - 1) \div 2 \in Nat
  <2> HIDE DEF l, place
  <2>1. k - 1 \in Nat
    BY <1>1, <1>2
  <2> QED
    BY <2>1
<1>4. place \in 1 .. l
  <2>1. cursor + (k - 1) \div 2 \in Nat
    BY <1>3
  <2>2. (cursor + (k - 1) \div 2) % l \in 0 .. l - 1
    BY <1>1, <2>1, Quotient
  <2> QED
    BY <1>1, <2>2
<1> HIDE DEF l, place
<1> QED
  BY <1>1, <1>2, <1>4

Jumps == <<2, -2, 3, -3, 5, -5>>

LEMMA FarMoves ==
  ASSUME NEW p \in ParamSets, NEW k \in DOMAIN Far(p)
  PROVE  \E n \in Names, d \in Int : Far(p)[k] = Move(p, n, d)
<1> DEFINE l == Len(Space(p))
<1>1. l \in Nat \ {0} /\ \A j \in 1 .. l : Space(p)[j] \in Names
  BY SpaceNames
<1>2. k \in 1 .. 6 * l /\ Far(p)[k] = Move(p, Space(p)[(k - 1) \div 6 + 1], Jumps[((k - 1) % 6) + 1])
  BY DEF Far, Jumps
<1> HIDE DEF l
<1>3. (k - 1) \div 6 + 1 \in 1 .. l /\ ((k - 1) % 6) + 1 \in 1 .. 6
  <2>1. l \in Nat /\ k \in 1 .. 6 * l
    BY <1>1, <1>2
  <2>2. k - 1 = 6 * ((k - 1) \div 6) + ((k - 1) % 6) /\ (k - 1) % 6 \in 0 .. 5 /\ (k - 1) \div 6 \in Nat
    BY <2>1
  <2> QED
    BY <2>1, <2>2
<1>4. \A i \in 1 .. 6 : Jumps[i] \in Int
  BY DEF Jumps
<1> QED
  BY <1>1, <1>2, <1>3, <1>4

\* Whatever is within reach of p is a move that ideate considers.
LEMMA ReachConsidered ==
  ASSUME NEW p \in ParamSets, cursor \in Nat, NEW m \in Reach(p)
  PROVE  \/ \E k \in DOMAIN Near(p) : m = <<Near(p)[k].param, Near(p)[k].new>>
         \/ \E k \in DOMAIN Far(p) : m = <<Far(p)[k].param, Far(p)[k].new>>
<1> DEFINE l == Len(Space(p))
<1>1. PICK n \in Range(Space(p)), d \in {-5, -3, -2, -1, 1, 2, 3, 5} : m = <<n, Clamp(p.vals[n] + d)>>
  BY DEF Reach
<1>2. l \in Nat \ {0} /\ DOMAIN Space(p) = 1 .. l /\ \A j \in 1 .. l : Space(p)[j] \in Names
  BY SpaceNames
<1>3. PICK j \in 1 .. l : n = Space(p)[j]
  BY <1>2 DEF Range
<1>4. n \in Names
  BY <1>2, <1>3
<1>5. m = <<Move(p, n, d).param, Move(p, n, d).new>>
  BY <1>1, <1>4, MoveTyped
<1>6. CASE d \in {1, -1}
  <2>1. PICK q \in 0 .. l - 1 : ((cursor + q) % l) + 1 = j
    BY <1>2, PlaceReached
  <2> DEFINE k == IF d = 1 THEN 2 * q + 1 ELSE 2 * q + 2
  <2>2. k \in 1 .. 2 * l /\ (k - 1) \div 2 = q /\ (IF k % 2 = 1 THEN 1 ELSE -1) = d
    BY <1>2, <1>6
  <2> HIDE DEF k
  <2>3. k \in DOMAIN Near(p)
    BY <2>2 DEF Near
  <2>4. Near(p)[k] = Move(p, Space(p)[((cursor + (k - 1) \div 2) % l) + 1], IF k % 2 = 1 THEN 1 ELSE -1)
    BY <2>2 DEF Near
  <2>5. Near(p)[k] = Move(p, n, d)
    BY <1>3, <2>1, <2>2, <2>4
  <2> QED
    BY <1>5, <2>3, <2>5
<1>7. CASE d \notin {1, -1}
  <2>1. PICK i \in 1 .. 6 : Jumps[i] = d
    <3>1. /\ Jumps[1] = 2 /\ Jumps[2] = -2 /\ Jumps[3] = 3 /\ Jumps[4] = -3
          /\ Jumps[5] = 5 /\ Jumps[6] = -5
      BY DEF Jumps
    <3> QED
      BY <1>7, <3>1
  <2> DEFINE k == 6 * (j - 1) + i
  <2>2. k \in 1 .. 6 * l /\ (k - 1) \div 6 + 1 = j /\ ((k - 1) % 6) + 1 = i
    BY <1>2
  <2> HIDE DEF k, l
  <2>3. k \in DOMAIN Far(p) /\ Far(p)[k] = Move(p, Space(p)[(k - 1) \div 6 + 1], Jumps[((k - 1) % 6) + 1])
    BY <2>2 DEF Far, Jumps, l
  <2>4. Far(p)[k] = Move(p, n, d)
    BY <1>3, <2>1, <2>2, <2>3
  <2> QED
    BY <1>5, <2>3, <2>4
<1> QED
  BY <1>6, <1>7

\* A nonempty set of naturals has a least element.
LEMMA LeastNatural ==
  ASSUME NEW T, T \subseteq Nat, T # {}
  PROVE  \E x \in T : \A y \in T : x <= y
<1> DEFINE R == StrictSubsetOrdering(Nat)
           F == FiniteSubsetsOf(Nat)
           U == {1..x : x \in T}
<1>1. IsWellFoundedOn(R, F)
  BY FS_StrictSubsetOrderingWellFounded
<1>2. U \subseteq F /\ U # {}
  <2>1. \A x \in T : 1..x \in SUBSET Nat /\ IsFiniteSet(1..x)
    BY FS_Interval
  <2>2. \A x \in T : 1..x \in F
    BY <2>1 DEF FiniteSubsetsOf
  <2> HIDE DEF F
  <2> QED
    BY <2>2
<1>3. \A x, y \in T : y < x => <<1..y, 1..x>> \in R
  BY DEF StrictSubsetOrdering
<1> HIDE DEF R, F
<1>4. \E X \in U : \A Y \in U : <<Y, X>> \notin R
  <2> HIDE DEF U
  <2> QED
    BY <1>1, <1>2, WFMin
<1>5. PICK x \in T : \A Y \in U : <<Y, 1..x>> \notin R
  BY <1>4
<1>6. \A y \in T : <<1..y, 1..x>> \notin R
  BY <1>5
<1>7. ASSUME NEW y \in T, y < x
      PROVE  FALSE
  <2>1. <<1..y, 1..x>> \in R
    BY <1>3, <1>7
  <2> QED
    BY <2>1, <1>6
<1> QED
  BY <1>7

\* When no move is fresh the first fresh one does not exist, and the other way round.
LEMMA NoneFresh ==
  ASSUME NEW moves, NEW n \in Nat, DOMAIN moves = 1 .. n, FirstFresh(moves) = {}, NEW k \in DOMAIN moves
  PROVE  ~Fresh(moves[k])
<1> SUFFICES ASSUME Fresh(moves[k])
             PROVE  FALSE
  OBVIOUS
<1> DEFINE T == {i \in DOMAIN moves : Fresh(moves[i])}
<1>1. PICK x \in T : \A y \in T : x <= y
  <2>1. T \subseteq Nat /\ T # {}
    OBVIOUS
  <2> HIDE DEF T
  <2> QED
    BY <2>1, LeastNatural
<1>2. ASSUME NEW j \in 1 .. x - 1
      PROVE  ~Fresh(moves[j])
  <2>1. x \in 1 .. n
    BY <1>1
  <2>2. j \in 1 .. n /\ ~(x <= j)
    BY <2>1
  <2> QED
    BY <1>1, <2>2
<1> QED
  BY <1>1, <1>2 DEF FirstFresh

-----------------------------------------------------------------------------
(* The invariant. *)

LEMMA ParamsKept ==
  /\ Emptied \in ParamSets
  /\ \A p \in ParamSets : Challenger(p) \in ParamSets
  /\ \A p \in ParamSets, n \in Names, v \in Nat : [p EXCEPT !.vals[n] = v] \in ParamSets
BY DEF ParamSets, Emptied, Challenger

\* A proposal writes a candidate to the file, and remembers and tries the same values.
LEMMA ProposalKeeps ==
  ASSUME SearchInv, at = "ideate", NEW n \in Names, NEW d \in Int, NEW seen,
         Try(Move(params, n, d), seen, seen), cursor' \in Nat
  PROVE  SearchInv'
<1>1. /\ visited' = tried' /\ trial' = [params EXCEPT !.vals[n] = Move(params, n, d).new]
      /\ file' = trial' /\ at' = "judge"
      /\ UNCHANGED <<params, scored, visitedFile, died>>
  <2>1. Move(params, n, d).param = n
    BY DEF Move
  <2> QED
    BY <2>1 DEF Try
<1>2. trial' \in ParamSets
  BY <1>1, MoveTyped, ParamsKept DEF SearchInv, SearchTyped
<1> QED
  BY <1>1, <1>2 DEF SearchInv, SearchTyped, FileFollows, BaselineIsTheirs, MemoryKept

\* A proposal of ideate is a move, and the values remembered are those tried.
LEMMA Proposals ==
  ASSUME SearchInv, ProposeNear \/ ProposeFar \/ ProposeAgain
  PROVE  /\ at = "ideate"
         /\ \E n \in Names, d \in Int : \E seen : Try(Move(params, n, d), seen, seen)
         /\ cursor' \in Nat
<1>0. params \in ParamSets /\ cursor \in Nat /\ (at = "ideate" => tried = visited)
  BY DEF SearchInv, SearchTyped, MemoryKept
<1>1. CASE ProposeNear
  <2>1. PICK k \in FirstFresh(Near(params)) :
          /\ cursor' = (cursor + (k - 1) \div 2 + 1) % Len(Space(params))
          /\ Try(Near(params)[k], visited, tried)
    BY <1>1 DEF ProposeNear
  <2>2. k \in DOMAIN Near(params)
    BY DEF FirstFresh
  <2>3. PICK n \in Names, d \in Int : Near(params)[k] = Move(params, n, d)
    BY <1>0, <2>2, NearMoves
  <2>4. cursor' \in Nat
    <3>1. Len(Space(params)) \in Nat \ {0} /\ k \in 1 .. 2 * Len(Space(params))
      BY <2>2, SpaceNames DEF Near
    <3>2. cursor + (k - 1) \div 2 + 1 \in Nat
      BY <1>0, <3>1
    <3>3. (cursor + (k - 1) \div 2 + 1) % Len(Space(params)) \in 0 .. Len(Space(params)) - 1
      BY <3>1, <3>2, Quotient
    <3> QED
      BY <2>1, <3>1, <3>3
  <2> QED
    BY <1>0, <1>1, <2>1, <2>3, <2>4 DEF ProposeNear
<1>2. CASE ProposeFar
  <2>1. PICK k \in FirstFresh(Far(params)) : Try(Far(params)[k], visited, tried)
    BY <1>2 DEF ProposeFar
  <2>2. PICK n \in Names, d \in Int : Far(params)[k] = Move(params, n, d)
    BY <1>0, FarMoves DEF FirstFresh
  <2> QED
    BY <1>0, <1>2, <2>1, <2>2 DEF ProposeFar
<1>3. CASE ProposeAgain
  <2>1. Space(params)[1] \in Names
    BY SpaceNames
  <2> QED
    BY <1>0, <1>3, <2>1 DEF ProposeAgain
<1> QED
  BY <1>1, <1>2, <1>3

LEMMA SearchStep == SearchInv /\ [Next]_vars => SearchInv'
<1> SUFFICES ASSUME SearchInv, [Next]_vars
             PROVE  SearchInv'
  OBVIOUS
<1> USE DEF SearchInv, SearchTyped, FileFollows, BaselineIsTheirs, MemoryKept
<1>1. CASE Boot
  BY <1>1 DEF Boot, search, locals
<1>2. CASE Review
  BY <1>2 DEF Review, memory
<1>3. ASSUME NEW s \in Scores, ScoreCurrent(s)
      PROVE  SearchInv'
  BY <1>3, ParamsKept DEF ScoreCurrent, memory
<1>4. ASSUME NEW s \in Scores, ScoreChallenger(s)
      PROVE  SearchInv'
  BY <1>4 DEF ScoreChallenger, memory
<1>5. ASSUME NEW s \in Scores, NEW g \in Guards, Baseline(s, g)
      PROVE  SearchInv'
  BY <1>5 DEF Baseline, memory
<1>6. ASSUME NEW s \in Scores, NEW g \in Guards, JudgeKeep(s, g)
      PROVE  SearchInv'
  <2>1. at = "judge" /\ at' \in {"finish", "ideate"} /\ params' = trial /\ scored' = file
        /\ UNCHANGED <<file, trial, memory, visitedFile, died>>
    BY <1>6 DEF JudgeKeep, AfterDecision
  <2> QED
    BY <2>1 DEF memory
<1>7. ASSUME NEW s \in Scores, NEW g \in Guards, JudgeRollback(s, g)
      PROVE  SearchInv'
  <2>1. at = "judge" /\ at' \in {"finish", "ideate"} /\ file' = params /\ trial' = params
        /\ UNCHANGED <<params, scored, memory, visitedFile, died>>
    BY <1>7 DEF JudgeRollback, AfterDecision
  <2> QED
    BY <2>1 DEF memory
<1>8. CASE ProposeNear \/ ProposeFar \/ ProposeAgain
  <2> HIDE DEF SearchInv, SearchTyped, FileFollows, BaselineIsTheirs, MemoryKept
  <2> QED
    BY <1>8, Proposals, ProposalKeeps
<1>9. CASE Finish
  BY <1>9, ParamsKept DEF Finish, NoLocals, memory
<1>10. CASE Abort
  BY <1>10, ParamsKept DEF Abort, NoLocals, memory
<1>11. CASE Reload \/ StartSearch
  BY <1>11 DEF Reload, StartSearch, search, locals, memory
<1>12. CASE Crash
  <2>1. /\ at' = "down" /\ died' = TRUE /\ params' = Emptied /\ trial' = Emptied /\ cursor' = 0
        /\ file' \in {file, Emptied}
        /\ tried' = (IF at \in {"ended", "idle"} /\ ~died THEN tried ELSE visitedFile')
        /\ (at # "finish" => visitedFile' = visitedFile)
    BY <1>12 DEF Crash, NoLocals
  <2> QED
    BY <2>1, ParamsKept
<1>13. CASE UNCHANGED vars
  BY <1>13 DEF vars, search, locals, memory
<1> QED
  BY <1>1, <1>2, <1>3, <1>4, <1>5, <1>6, <1>7, <1>8, <1>9, <1>10, <1>11, <1>12, <1>13 DEF Next, Search

LEMMA SearchStart == Init => SearchInv
<1> SUFFICES ASSUME Init
             PROVE  SearchInv
  OBVIOUS
<1>1. file \in ParamSets
  BY SearchConstants DEF Init, ParamSets
<1> QED
  BY <1>1, ParamsKept
  DEF Init, SearchInv, SearchTyped, FileFollows, BaselineIsTheirs, MemoryKept

LEMMA SearchInductive == Spec => []SearchInv
  BY SearchStart, SearchStep, PTL DEF Spec

-----------------------------------------------------------------------------
(* The theorems. *)

\* What trading is loaded from after a search that ran to its end is what that search
\* accepted, though every candidate went through the same file.
THEOREM LoadsAccepted == Spec => []AcceptedIsLoaded
<1>1. SearchInv => AcceptedIsLoaded
  BY DEF SearchInv, FileFollows, AcceptedIsLoaded
<1> QED
  BY <1>1, SearchInductive, PTL

\* The baseline a candidate has to beat is the score of the parameters it would replace.
THEOREM ComparesLikeWithLike == Spec => []BaselineIsTheirs
<1>1. SearchInv => BaselineIsTheirs
  BY DEF SearchInv
<1> QED
  BY <1>1, SearchInductive, PTL

\* The value a proposal changes is the one of its move.
LEMMA OnlyTheMove ==
  ASSUME params \in ParamSets, NEW n \in Names, NEW d \in Int, NEW seen,
         Try(Move(params, n, d), seen, seen),
         NEW x \in Names, trial'.vals[x] # params.vals[x]
  PROVE  x = n /\ trial'.vals[x] = Move(params, n, d).new
<1>1. trial' = [params EXCEPT !.vals[n] = Move(params, n, d).new]
  BY DEF Try, Move
<1> QED
  BY <1>1 DEF ParamSets

\* A value is tried again only when all within reach have been, in whatever order the two
\* strategies, keeps, rollbacks and restarts come.
THEOREM TriesOnce == Spec => NothingTriedTwice
<1> DEFINE Repeats ==
      \A n \in {x \in Names : trial'.vals[x] # params.vals[x]} :
        <<n, trial'.vals[n]>> \in tried =>
          \A m \in Reach(params) : m \in tried \/ params.vals[m[1]] = m[2]
<1>1. ASSUME SearchInv, Next, at = "ideate", at' = "judge"
      PROVE  Repeats
  <2>0. params \in ParamSets /\ cursor \in Nat /\ tried = visited
    BY <1>1 DEF SearchInv, SearchTyped, MemoryKept
  <2>1. ProposeNear \/ ProposeFar \/ ProposeAgain
    BY <1>1 DEF Next, Search, Boot, Review, ScoreCurrent, ScoreChallenger, Baseline, JudgeKeep,
                JudgeRollback, Finish, Abort, Reload, StartSearch, Crash
  <2>2. ASSUME NEW n \in Names, NEW d \in Int, NEW seen,
               Try(Move(params, n, d), seen, seen), Fresh(Move(params, n, d))
        PROVE  Repeats
    <3>1. <<n, Move(params, n, d).new>> \notin tried
      BY <2>0, <2>2 DEF Fresh, Move
    <3> QED
      BY <2>0, <2>2, <3>1, OnlyTheMove
  <2>3. CASE ProposeNear
    <3>1. PICK k \in FirstFresh(Near(params)) : Try(Near(params)[k], visited, tried)
      BY <2>3 DEF ProposeNear
    <3>2. k \in DOMAIN Near(params) /\ Fresh(Near(params)[k])
      BY DEF FirstFresh
    <3>3. PICK n \in Names, d \in Int : Near(params)[k] = Move(params, n, d)
      BY <2>0, <3>2, NearMoves
    <3> HIDE DEF Repeats
    <3> QED
      BY <2>0, <2>2, <3>1, <3>2, <3>3
  <2>4. CASE ProposeFar
    <3>1. PICK k \in FirstFresh(Far(params)) : Try(Far(params)[k], visited, tried)
      BY <2>4 DEF ProposeFar
    <3>2. k \in DOMAIN Far(params) /\ Fresh(Far(params)[k])
      BY DEF FirstFresh
    <3>3. PICK n \in Names, d \in Int : Far(params)[k] = Move(params, n, d)
      BY <2>0, <3>2, FarMoves
    <3> HIDE DEF Repeats
    <3> QED
      BY <2>0, <2>2, <3>1, <3>2, <3>3
  <2>5. CASE ProposeAgain
    <3>1. FirstFresh(Near(params)) = {} /\ FirstFresh(Far(params)) = {}
      BY <2>5 DEF ProposeAgain
    <3>2. ASSUME NEW m \in Reach(params)
          PROVE  m \in tried \/ params.vals[m[1]] = m[2]
      <4> DEFINE l == Len(Space(params))
      <4>0. l \in Nat
        BY SpaceNames
      <4> HIDE DEF l
      <4>1. ASSUME NEW k \in DOMAIN Near(params), m = <<Near(params)[k].param, Near(params)[k].new>>
            PROVE  m \in tried \/ params.vals[m[1]] = m[2]
        <5>1. DOMAIN Near(params) = 1 .. 2 * l /\ 2 * l \in Nat
          BY <4>0 DEF Near, l
        <5>2. ~Fresh(Near(params)[k])
          BY <3>1, <5>1, NoneFresh
        <5> QED
          BY <2>0, <4>1, <5>2 DEF Fresh
      <4>2. ASSUME NEW k \in DOMAIN Far(params), m = <<Far(params)[k].param, Far(params)[k].new>>
            PROVE  m \in tried \/ params.vals[m[1]] = m[2]
        <5>1. DOMAIN Far(params) = 1 .. 6 * l /\ 6 * l \in Nat
          BY <4>0 DEF Far, l
        <5>2. ~Fresh(Far(params)[k])
          BY <3>1, <5>1, NoneFresh
        <5> QED
          BY <2>0, <4>2, <5>2 DEF Fresh
      <4> QED
        BY <2>0, <4>1, <4>2, ReachConsidered
    <3> QED
      BY <3>2
  <2> QED
    BY <2>1, <2>3, <2>4, <2>5
<1>2. SearchInv /\ [Next]_vars => [at = "ideate" /\ at' = "judge" => Repeats]_vars
  <2> HIDE DEF Repeats
  <2> QED
    BY <1>1
<1> QED
  BY <1>2, SearchInductive, PTL DEF Spec, NothingTriedTwice

=============================================================================
