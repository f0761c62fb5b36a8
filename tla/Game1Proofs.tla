---------------------------- MODULE Game1Proofs ----------------------------
(***************************************************************************)
(* Proofs about Game1, for every GAME_TIME, deadline, administrator's      *)
(* value and uninitialised phase; and about Replies, which is Game1 with   *)
(* the messages it is answered with: what a player makes of them is true,  *)
(* and the table has every message that is composed.                       *)
(***************************************************************************)
EXTENDS Replies, FiniteSetTheorems, TLAPS

USE GameTimeAssumption, UninitAssumption, AdminAssumption, BoundsAssumption
    DEF GameTimeAssumption, UninitAssumption, AdminAssumption, BoundsAssumption

-----------------------------------------------------------------------------
(* The guards of Next, named once: what a step may be.                     *)
LEMMA StepCases ==
  ASSUME Next
  PROVE  \/ StartGame \/ Observe \/ TakeFull \/ TakeSolved \/ SolveEnigma
         \/ \E o \in Objects : Take(o) \/ Drop(o)
         \/ UseCristalloBastone \/ UseBastoneLibro \/ UseLibro
         \/ UseBastoneParteRovinata \/ UseLibroEnd
         \/ \E value \in AdminValues : AdminUpdateTime(value)
         \/ Tick
  BY DEF Next, Command, Use

(* Typing, in three parts: numbers, truth values and flags.                *)
Numbers  == phase \in Int /\ end_time \in Int /\ token_earned \in Nat /\ now \in 0..MaxNow
Booleans == selected_game \in BOOLEAN /\ is_playing \in BOOLEAN /\ phaseLost \in BOOLEAN /\ status \in Statuses
Typed    == flags \in [Objects -> Flags]

(* Allocated flags are not NULL.                                           *)
LEMMA FlagsNotNull == ASSUME NEW f \in [Objects -> Flags] PROVE f # NULL
<1>1. DOMAIN f = Objects /\ "libro" \in Objects
  BY DEF Objects
<1>2. DOMAIN NULL = {}
  BY DEF NULL
<1> QED
  BY <1>1, <1>2

(* TypeOK by parts: the numbers, the truth values, and the flags with      *)
(* selected_game.                                                          *)
LEMMA TypeParts == TypeOK <=> Numbers /\ Booleans /\ (Typed \/ (flags = NULL /\ ~selected_game))
  BY FlagsNotNull, Zenon DEF TypeOK, Numbers, Booleans, Typed

(* Every request, tick and update keeps the numbers numbers.               *)
LEMMA NumbersStep == Numbers /\ [Next]_vars => Numbers'
<1> SUFFICES ASSUME Numbers, [Next]_vars PROVE Numbers'
  OBVIOUS
<1>1. CASE UNCHANGED vars
  BY <1>1 DEF vars, game, Numbers
<1>2. CASE StartGame
  BY <1>2 DEF StartGame, Numbers
<1>3. CASE \E value \in AdminValues : AdminUpdateTime(value)
  BY <1>3 DEF AdminUpdateTime, Numbers
<1>4. CASE Tick
  BY <1>4 DEF Tick, game, Numbers
<1>5. CASE Request /\ phase' \in Int /\ token_earned' \in Nat
  BY <1>5 DEF Request, Numbers
<1>7. TakeFull => phase' \in Int /\ token_earned' \in Nat
  BY DEF TakeFull, Numbers
<1>8. PayToken => token_earned' \in Nat
  BY DEF PayToken, Numbers
<1>9. \A from \in Int : Advance(from) => phase' \in Int
  BY DEF Advance
<1>10. TakeSolved \/ Use => phase' \in Int /\ token_earned' \in Nat
  BY <1>8, <1>9
  DEF TakeSolved, Use, UseCristalloBastone, UseBastoneLibro, UseLibro,
      UseBastoneParteRovinata, UseLibroEnd, Numbers
<1> QED
  BY <1>1, <1>2, <1>3, <1>4, <1>5, <1>7, <1>10, StepCases
  DEF Observe, TakeFull, Take, TakeSolved, SolveEnigma, Drop, Use,
      UseCristalloBastone, UseBastoneLibro, UseLibro,
      UseBastoneParteRovinata, UseLibroEnd, Play, Numbers

(* ... and the truth values and the status theirs.                         *)
LEMMA BooleansStep == Booleans /\ [Next]_vars => Booleans'
<1> SUFFICES ASSUME Booleans, [Next]_vars PROVE Booleans'
  OBVIOUS
<1> USE DEF Booleans, Statuses
<1>1. CASE UNCHANGED vars
  BY <1>1 DEF vars, game
<1>2. CASE Play /\ (UNCHANGED phaseLost \/ phaseLost' = TRUE)
  BY <1>2 DEF Play, Request, StatusNow, PlayingNow
<1>3. CASE StartGame
  BY <1>3 DEF StartGame
<1>4. CASE UseLibroEnd
  BY <1>4 DEF UseLibroEnd, Advance, Request, StatusNow, PlayingNow
<1>5. CASE Tick \/ \E value \in AdminValues : AdminUpdateTime(value)
  BY <1>5 DEF Tick, game, AdminUpdateTime
<1> QED
  BY <1>1, <1>2, <1>3, <1>4, <1>5, StepCases
  DEF Observe, TakeFull, Take, TakeSolved, SolveEnigma, Drop,
      UseCristalloBastone, UseBastoneLibro, UseLibro,
      UseBastoneParteRovinata, Advance

(* A request finds the flags allocated, and leaves them so.                *)
LEMMA FlagsStep == Typed /\ Next => Typed'
<1> SUFFICES ASSUME Typed, Next PROVE Typed'
  OBVIOUS
<1> USE DEF Typed
<1>1. CASE UNCHANGED flags
  BY <1>1
<1>2. CASE StartGame
  BY <1>2 DEF StartGame, Objects, Flags
<1>3. CASE \E o \in Objects, v \in Flags : flags' = [flags EXCEPT ![o] = v]
  BY <1>3
<1>4. \A o \in Objects : Take(o) \/ Drop(o) => \E v \in Flags : flags' = [flags EXCEPT ![o] = v]
  BY DEF Take, Drop, Flags
<1>5. SolveEnigma \/ TakeSolved \/ Use =>
        \E o \in Objects, v \in Flags : flags' = [flags EXCEPT ![o] = v]
  BY DEF SolveEnigma, TakeSolved, Use, UseCristalloBastone, UseBastoneLibro,
         UseLibro, UseBastoneParteRovinata, UseLibroEnd, Objects, Flags
<1> QED
  BY <1>1, <1>2, <1>3, <1>4, <1>5, StepCases
  DEF Use, Observe, TakeFull, AdminUpdateTime, Tick, game

(* A session that calloc has cleared has the types.                        *)
LEMMA TypeInit == Init => TypeOK
<1>1. Init => Numbers
  BY DEF Init, Numbers
<1>2. Init => Booleans
  BY DEF Init, Booleans, Statuses
<1> QED
  BY <1>1, <1>2, TypeParts DEF Init

(* Every step keeps all the types: the three lemmas above together.        *)
LEMMA TypeStep == TypeOK /\ [Next]_vars => TypeOK'
<1> SUFFICES ASSUME TypeOK, [Next]_vars PROVE TypeOK'
  OBVIOUS
<1>1. Numbers' /\ Booleans'
  BY NumbersStep, BooleansStep, TypeParts
<1>2. CASE Typed /\ Next
  BY <1>1, <1>2, FlagsStep, FlagsNotNull DEF TypeOK, Numbers, Booleans, Typed
<1>3. CASE StartGame
  <2>1. Typed'
    BY <1>3 DEF StartGame, Typed, Objects, Flags
  <2> QED
    BY <1>1, <2>1, FlagsNotNull DEF TypeOK, Numbers, Booleans, Typed
<1>4. CASE UNCHANGED <<flags, selected_game>>
  BY <1>1, <1>4 DEF TypeOK, Numbers, Booleans
<1>5. CASE UNCHANGED vars
  BY <1>4, <1>5 DEF vars, game
<1>6. ASSUME ~Typed, Next PROVE StartGame \/ UNCHANGED <<flags, selected_game>>
  <2>1. ~selected_game
    BY <1>6, TypeParts
  <2> QED
    BY <1>6, <2>1, StepCases
    DEF Observe, TakeFull, Take, TakeSolved, SolveEnigma, Drop, Play, Request,
        UseCristalloBastone, UseBastoneLibro, UseLibro,
        UseBastoneParteRovinata, UseLibroEnd, AdminUpdateTime, Tick, game
<1> QED
  BY <1>2, <1>3, <1>4, <1>5, <1>6

(* The fields of a game keep their types, whatever is requested.           *)
THEOREM TypeCorrect == Spec => []TypeOK
  BY TypeInit, TypeStep, PTL DEF Spec

-----------------------------------------------------------------------------
(* The clock and the verdict. *)

(* Every request but an init either leaves the clock's verdict, or wins a  *)
(* game whose deadline has not passed.                                     *)
LEMMA ClockStep == TypeOK /\ ClockAgrees /\ [Next]_vars => ClockAgrees'
<1> SUFFICES ASSUME TypeOK, ClockAgrees, [Next]_vars PROVE ClockAgrees'
  OBVIOUS
<1>e. Expired <=> end_time <= now
  BY DEF Expired, TypeOK
<1>1. CASE Play
  <2>1. CASE Expired
    BY <1>1, <2>1, <1>e DEF Play, Request, StatusNow, PlayingNow, ClockAgrees
  <2>2. CASE ~Expired
    BY <1>1, <2>2, <1>e DEF Play, Request, StatusNow, PlayingNow, ClockAgrees
  <2> QED
    BY <2>1, <2>2
<1>2. CASE StartGame
  BY <1>2 DEF StartGame, ClockAgrees
<1>3. CASE UseLibroEnd
  <2>1. CASE Expired
    BY <1>3, <2>1, <1>e DEF UseLibroEnd, Request, StatusNow, PlayingNow, ClockAgrees
  <2>2. CASE ~Expired
    BY <1>3, <2>2, <1>e DEF UseLibroEnd, Request, StatusNow, PlayingNow, ClockAgrees
  <2> QED
    BY <2>1, <2>2
<1>4. ASSUME NEW value \in AdminValues, AdminUpdateTime(value)
      PROVE ClockAgrees'
  BY <1>4 DEF AdminUpdateTime, ClockAgrees
<1>5. CASE Tick
  BY <1>5 DEF Tick, game, ClockAgrees, TypeOK
<1>6. CASE UNCHANGED vars
  BY <1>6 DEF vars, game, ClockAgrees
<1> QED
  BY <1>1, <1>2, <1>3, <1>4, <1>5, <1>6
  DEF Next, Command, Use, Observe, TakeFull, Take, TakeSolved, SolveEnigma,
      Drop, UseCristalloBastone, UseBastoneLibro, UseLibro,
      UseBastoneParteRovinata

(* is_playing and the status agree, and a timed out game is past its       *)
(* deadline, whatever the administrator does to the deadline.              *)
THEOREM ClockAlwaysAgrees == Spec => []ClockAgrees
<1>1. Init => ClockAgrees
  BY DEF Init, ClockAgrees
<1> QED
  BY <1>1, ClockStep, TypeCorrect, PTL DEF Spec

(* A win is earned in the last phase, before the deadline; a timed out     *)
(* game stays timed out until the next init.                               *)
THEOREM VerdictsAreFair == Spec => FairVerdict
<1> DEFINE Fair == /\ status # "WIN" /\ status' = "WIN" => status = "PLAYING" /\ now < end_time /\ phase' = LAST_PHASE
                   /\ status = "TIMEOUT" => status' = "TIMEOUT" \/ StartGame
<1>1. TypeOK /\ [Next]_vars => [Fair]_vars
  <2> SUFFICES ASSUME TypeOK, Next PROVE Fair
    OBVIOUS
  <2>1. CASE Play
    BY <2>1 DEF Play, Request, StatusNow
  <2>2. CASE StartGame
    BY <2>2 DEF StartGame
  <2>3. CASE UseLibroEnd
    BY <2>3 DEF UseLibroEnd, Advance, StatusNow, Expired, TypeOK, LAST_PHASE
  <2>4. CASE \E value \in AdminValues : AdminUpdateTime(value)
    BY <2>4 DEF AdminUpdateTime
  <2>5. CASE Tick
    BY <2>5 DEF Tick, game
  <2> QED
    BY <2>1, <2>2, <2>3, <2>4, <2>5
    DEF Next, Command, Use, Observe, TakeFull, Take, TakeSolved, SolveEnigma,
        Drop, UseCristalloBastone, UseBastoneLibro, UseLibro,
        UseBastoneParteRovinata
<1> QED
  BY <1>1, TypeCorrect, PTL DEF Spec, FairVerdict

-----------------------------------------------------------------------------
(* The puzzle. *)

(* What OnStory says of a game that has a phase, with the phase split off. *)
Places(ph, f) ==
  /\ f["bastone"] \in {"FREE", "IN_BAG"}
  /\ f["parte_rovinata"] = "LOCKED"
  /\ f["cristallo"] \in IF ph <= 2 THEN {"FREE", "IN_BAG"} ELSE {"LOCKED"}
  /\ f["libro"] \in CASE ph = 1 -> {"ENIGMA_BLOCKED", "ENIGMA_SOLVED"}
                       [] ph = 5 -> {"LOCKED"}
                       [] OTHER -> {"FREE", "IN_BAG"}

(* OnStory of a game that is selected and whose phase is not lost, by      *)
(* parts.                                                                  *)
LEMMA OnStoryParts ==
  OnStory <=> (selected_game /\ ~phaseLost =>
                 /\ phase \in 1..7
                 /\ token_earned = StoryOf!TokensAt[phase]
                 /\ Places(phase, flags))
  BY Zenon DEF OnStory, Places, LAST_PHASE

(* The flags of a selected game are allocated.                             *)
LEMMA SelectedTyped == TypeOK /\ selected_game => Typed
  BY DEF TypeOK, Typed

(* A take or a drop moves one object that the phase leaves to the player   *)
(* between the bag and the room.                                           *)
LEMMA PlacesMove ==
  ASSUME NEW ph \in 1..7, NEW f \in [Objects -> Flags], NEW o \in Objects,
         NEW v \in {"FREE", "IN_BAG"}, f[o] \in {"FREE", "IN_BAG"},
         Places(ph, f)
  PROVE  Places(ph, [f EXCEPT ![o] = v])
<1> DEFINE g == [f EXCEPT ![o] = v]
<1>1. /\ g[o] = v
      /\ \A x \in Objects : x # o => g[x] = f[x]
  OBVIOUS
<1>2. {"libro", "cristallo", "bastone", "parte_rovinata"} = Objects
  BY DEF Objects
<1> HIDE DEF g
<1>3. CASE o = "libro"
  BY <1>1, <1>2, <1>3 DEF Places
<1>4. CASE o = "cristallo"
  BY <1>1, <1>2, <1>4 DEF Places
<1>5. CASE o = "bastone"
  BY <1>1, <1>2, <1>5 DEF Places
<1>6. CASE o = "parte_rovinata"
  BY <1>6 DEF Places
<1> QED
  BY <1>2, <1>3, <1>4, <1>5, <1>6 DEF g

(* One request on a game that is on its story keeps it there, or loses the *)
(* phase for good.                                                         *)
LEMMA OnStoryStep == TypeOK /\ OnStory /\ [Next]_vars => OnStory'
<1> SUFFICES ASSUME TypeOK, OnStory, [Next]_vars PROVE OnStory'
  OBVIOUS
<1> DEFINE Told == selected_game /\ ~phaseLost
           Tale == phase \in 1..7 /\ token_earned = StoryOf!TokensAt[phase] /\ Places(phase, flags)
<1>0. /\ OnStory' <=> (Told' => Tale')
      /\ Told => Tale
  <2>1. Told => Tale
    BY OnStoryParts
  <2>2. OnStory' <=> (Told' => Tale')
    BY OnStoryParts, PTL
  <2> QED
    BY <2>1, <2>2
<1>t. Told => Typed
  BY SelectedTyped
<1>s. StoryOf!TokensAt = <<0, 1, 1, 2, 3, 4, 4>>
  BY DEF StoryOf!TokensAt
<1>1. CASE StartGame
  BY <1>1, <1>0, <1>s DEF StartGame, Places, Objects
<1>2. CASE UNCHANGED <<selected_game, phase, token_earned, flags, phaseLost>>
  BY <1>2, <1>0 DEF Places
<1>3. CASE TakeFull
  BY <1>3, <1>0 DEF TakeFull
<1>4. ASSUME NEW o \in Objects, Take(o) \/ Drop(o), Told' PROVE Tale'
  <2>0. selected_game /\ phaseLost' = phaseLost /\ UNCHANGED <<phase, token_earned>>
    BY <1>4 DEF Take, Drop, Play, Request
  <2>1. Told /\ UNCHANGED <<phase, token_earned>>
    BY <1>4, <2>0, Zenon
  <2>2. Tale /\ Typed
    BY <2>1, <1>0, <1>t
  <2>3. PICK v \in {"FREE", "IN_BAG"} : flags' = [flags EXCEPT ![o] = v]
    BY <1>4 DEF Take, Drop
  <2>4. flags[o] \in {"FREE", "IN_BAG"}
    BY <1>4 DEF Take, Drop, Held
  <2>5. Places(phase, [flags EXCEPT ![o] = v])
    BY <2>2, <2>4, PlacesMove DEF Typed
  <2> QED
    BY <2>1, <2>2, <2>3, <2>5 DEF Places
<1>5. ASSUME TakeSolved \/ SolveEnigma \/ Use, Told' PROVE Tale'
  <2>0. selected_game /\ phaseLost' = phaseLost
    BY <1>5
    DEF TakeSolved, SolveEnigma, Use, UseCristalloBastone, UseBastoneLibro,
        UseLibro, UseBastoneParteRovinata, UseLibroEnd, Advance, Play, Request
  <2>t. Told
    BY <1>5, <2>0, Zenon
  <2>1. Told /\ Tale /\ Typed
    BY <2>t, <1>0, <1>t
  <2> HIDE DEF Told
  <2>o. {"libro", "cristallo", "bastone", "parte_rovinata"} = Objects
    BY DEF Objects
  <2>m. ASSUME NEW o \in Objects, NEW v, flags' = [flags EXCEPT ![o] = v]
        PROVE  /\ flags'[o] = v
               /\ \A x \in Objects : x # o => flags'[x] = flags[x]
    BY <2>1, <2>m DEF Typed
  <2>2. CASE TakeSolved
    <3>1. phase = 1
      BY <2>1, <2>2 DEF TakeSolved, Places
    <3>2. phase' = 2 /\ token_earned' = token_earned + 1
      BY <2>2, <3>1 DEF TakeSolved, PayToken
    <3>3. flags'["libro"] = "IN_BAG" /\ \A x \in Objects : x # "libro" => flags'[x] = flags[x]
      BY <2>2, <2>m, <2>o DEF TakeSolved
    <3> QED
      BY <2>1, <2>o, <3>1, <3>2, <3>3, <1>s DEF Places
  <2>3. CASE SolveEnigma
    <3>3. flags'["libro"] = "ENIGMA_SOLVED" /\ \A x \in Objects : x # "libro" => flags'[x] = flags[x]
      BY <2>3, <2>m, <2>o DEF SolveEnigma
    <3> QED
      BY <2>1, <2>3, <2>o, <3>3 DEF SolveEnigma, Places
  <2>4. CASE UseCristalloBastone
    <3>3. flags'["cristallo"] = "LOCKED" /\ \A x \in Objects : x # "cristallo" => flags'[x] = flags[x]
      BY <2>4, <2>m, <2>o DEF UseCristalloBastone
    <3> QED
      BY <2>1, <2>4, <2>o, <3>3, <1>s DEF UseCristalloBastone, Advance, Places
  <2>5. CASE UseBastoneLibro
    <3>3. flags'["cristallo"] = "LOCKED" /\ \A x \in Objects : x # "cristallo" => flags'[x] = flags[x]
      BY <2>5, <2>m, <2>o DEF UseBastoneLibro
    <3> QED
      BY <2>1, <2>5, <2>o, <3>3, <1>s DEF UseBastoneLibro, Advance, PayToken, Places, Held
  <2>6. CASE UseLibro
    <3>3. flags'["libro"] = "LOCKED" /\ \A x \in Objects : x # "libro" => flags'[x] = flags[x]
      BY <2>6, <2>m, <2>o DEF UseLibro
    <3> QED
      BY <2>1, <2>6, <2>o, <3>3, <1>s DEF UseLibro, Advance, PayToken, Places
  <2>7. CASE UseBastoneParteRovinata
    <3>3. flags'["libro"] = "FREE" /\ \A x \in Objects : x # "libro" => flags'[x] = flags[x]
      BY <2>7, <2>m, <2>o DEF UseBastoneParteRovinata
    <3> QED
      BY <2>1, <2>7, <2>o, <3>3, <1>s DEF UseBastoneParteRovinata, Advance, PayToken, Places
  <2>8. CASE UseLibroEnd
    <3>3. flags'["libro"] = "FREE" /\ \A x \in Objects : x # "libro" => flags'[x] = flags[x]
      BY <2>8, <2>m, <2>o DEF UseLibroEnd
    <3> QED
      BY <2>1, <2>8, <2>o, <3>3, <1>s DEF UseLibroEnd, Advance, Places
  <2> QED
    BY <1>5, <2>2, <2>3, <2>4, <2>5, <2>6, <2>7, <2>8 DEF Use
<1> QED
  BY <1>0, <1>1, <1>2, <1>3, <1>4, <1>5, StepCases
  DEF Observe, Play, Request, AdminUpdateTime, Tick, vars, game, Use

(* Whatever is requested and in whatever order, the objects are where the  *)
(* phase needs them and the tokens are those the phase has paid.           *)
THEOREM AlwaysOnStory == Spec => []OnStory
<1>1. Init => OnStory
  BY DEF Init, OnStory
<1> QED
  BY <1>1, OnStoryStep, TypeCorrect, PTL DEF Spec

-----------------------------------------------------------------------------
(* The bag. *)

(* There are finitely many objects.                                        *)
LEMMA ObjectsFinite == IsFiniteSet(Objects)
<1>1. IsFiniteSet({} \cup {"libro"})
  BY FS_EmptySet, FS_AddElement
<1>2. IsFiniteSet(({} \cup {"libro"}) \cup {"cristallo"})
  BY <1>1, FS_AddElement
<1>3. IsFiniteSet((({} \cup {"libro"}) \cup {"cristallo"}) \cup {"bastone"})
  BY <1>2, FS_AddElement
<1>4. IsFiniteSet(((({} \cup {"libro"}) \cup {"cristallo"}) \cup {"bastone"}) \cup {"parte_rovinata"})
  BY <1>3, FS_AddElement
<1>5. Objects = ((({} \cup {"libro"}) \cup {"cristallo"}) \cup {"bastone"}) \cup {"parte_rovinata"}
  BY DEF Objects
<1> QED
  BY <1>4, <1>5

(* ... so the bag can be counted.                                          *)
LEMMA BagFinite == IsFiniteSet(Bag) /\ Cardinality(Bag) \in Nat
<1>1. Bag \subseteq Objects
  BY DEF Bag
<1> QED
  BY <1>1, ObjectsFinite, FS_Subset, FS_CardinalityType

(* A request puts one object in the bag at most, and only when a hand is   *)
(* free.                                                                   *)
LEMMA BagStep == TypeOK /\ BagBound /\ [Next]_vars => BagBound'
<1> SUFFICES ASSUME TypeOK, BagBound, [Next]_vars, selected_game'
             PROVE  Cardinality(Bag') <= BAG_SIZE
  BY DEF BagBound
<1>f. /\ IsFiniteSet(Bag) /\ Cardinality(Bag) \in Nat
      /\ IsFiniteSet(Bag') /\ Cardinality(Bag') \in Nat
  <2>1. (IsFiniteSet(Bag) /\ Cardinality(Bag) \in Nat)'
    BY BagFinite, PTL
  <2> QED
    BY <2>1, BagFinite
<1>1. CASE StartGame
  <2>1. Bag' = {}
    BY <1>1 DEF StartGame, Bag
  <2> QED
    BY <2>1, FS_EmptySet DEF BAG_SIZE
<1>2. CASE selected_game /\ Bag' \subseteq Bag
  BY <1>2, <1>f, FS_Subset DEF BagBound, BAG_SIZE
<1>3. ASSUME selected_game, ~BagFull, NEW o \in Objects,
             flags' = [flags EXCEPT ![o] = "IN_BAG"]
      PROVE  Cardinality(Bag') <= BAG_SIZE
  <2>1. Cardinality(Bag) <= 1
    BY <1>3, <1>f DEF BagFull, BAG_SIZE
  <2>2. Bag' \subseteq Bag \cup {o}
    BY <1>3, SelectedTyped DEF Bag, Typed
  <2>3. /\ IsFiniteSet(Bag \cup {o})
        /\ Cardinality(Bag \cup {o}) <= 2
    <3>1. Cardinality(Bag \cup {o}) = IF o \in Bag THEN Cardinality(Bag) ELSE Cardinality(Bag) + 1
      BY <1>f, FS_AddElement
    <3>2. IsFiniteSet(Bag \cup {o})
      BY <1>f, FS_AddElement
    <3> QED
      BY <1>f, <2>1, <3>1, <3>2
  <2> QED
    BY <2>2, <2>3, <1>f, FS_Subset, FS_CardinalityType DEF BAG_SIZE
<1>4. ASSUME selected_game, NEW o \in Objects, NEW v \in Flags \ {"IN_BAG"},
             flags' = [flags EXCEPT ![o] = v]
      PROVE  selected_game /\ Bag' \subseteq Bag
  BY <1>4, SelectedTyped DEF Bag, Typed
<1>5. CASE UNCHANGED <<selected_game, flags>>
  <2>1. Bag' = Bag
    BY <1>5 DEF Bag
  <2> QED
    BY <1>2, <1>5, <2>1
<1>6. /\ {"libro", "cristallo", "bastone", "parte_rovinata"} = Objects
      /\ {"FREE", "LOCKED", "ENIGMA_SOLVED"} \subseteq Flags \ {"IN_BAG"}
  BY DEF Objects, Flags
<1>7. CASE \E o \in Objects : Take(o)
  BY <1>7, <1>3 DEF Take, Play, Request
<1>8. CASE TakeSolved
  BY <1>8, <1>3, <1>6 DEF TakeSolved, Play, Request
<1>9. CASE \E o \in Objects : Drop(o)
  BY <1>9, <1>2, <1>4, <1>6 DEF Drop, Play, Request
<1>10. CASE SolveEnigma
  BY <1>10, <1>2, <1>4, <1>6 DEF SolveEnigma, Play, Request
<1>11. CASE Use
  BY <1>11, <1>2, <1>4, <1>6
  DEF Use, UseCristalloBastone, UseBastoneLibro, UseLibro,
      UseBastoneParteRovinata, UseLibroEnd, Play, Request
<1> QED
  BY <1>1, <1>5, <1>7, <1>8, <1>9, <1>10, <1>11, StepCases
  DEF Observe, TakeFull, Play, Request, AdminUpdateTime, Tick, vars, game, Use

(* The bag never holds more than two objects, on or off the story.         *)
THEOREM BagAlwaysBounded == Spec => []BagBound
<1>1. Init => BagBound
  BY DEF Init, BagBound
<1> QED
  BY <1>1, BagStep, TypeCorrect, PTL DEF Spec

-----------------------------------------------------------------------------
(* Game1 implements Story. *)

(* A selected game has been started.                                       *)
Started == selected_game => status # "NOT_STARTED"

(* A game once started is never again not started.                         *)
LEMMA StartedStep == Started /\ [Next]_vars => Started'
<1> SUFFICES ASSUME Started, [Next]_vars PROVE Started'
  OBVIOUS
<1> USE DEF Started
<1>1. CASE StartGame
  BY <1>1 DEF StartGame
<1>2. CASE selected_game /\ status' \in {status, "TIMEOUT", "WIN"}
  BY <1>2
<1>3. CASE UNCHANGED <<selected_game, status>>
  BY <1>3
<1>4. Play \/ UseLibroEnd => selected_game /\ status' \in {status, "TIMEOUT", "WIN"}
  BY DEF Play, UseLibroEnd, Request, StatusNow
<1> QED
  BY <1>1, <1>2, <1>3, <1>4, StepCases
  DEF Observe, TakeFull, Take, TakeSolved, SolveEnigma, Drop,
      UseCristalloBastone, UseBastoneLibro, UseLibro,
      UseBastoneParteRovinata, AdminUpdateTime, Tick, vars, game

(* The steps of the story, as Game1 takes them. Story's phase and tokens   *)
(* are the game's, or 0 off the story.                                     *)
StoryPhase  == IF selected_game /\ ~phaseLost THEN phase ELSE 0
StoryTokens == IF selected_game /\ ~phaseLost THEN token_earned ELSE 0
StoryVars   == <<StoryPhase, StoryTokens, status>>

(* Every step of the game is a step of the story, or a stutter.            *)
LEMMA StoryStep ==
  ASSUME TypeOK, OnStory, Started, [Next]_vars
  PROVE  [StoryOf!Next]_StoryVars
<1> DEFINE Told == selected_game /\ ~phaseLost
<1>s. StoryOf!TokensAt = <<0, 1, 1, 2, 3, 4, 4>>
  BY DEF StoryOf!TokensAt
<1>n. /\ StoryOf!Next <=> \/ StoryOf!Start \/ StoryOf!Unlock \/ StoryOf!Win
                          \/ StoryOf!RunOut \/ StoryOf!Derail \/ StoryOf!OffStory
  BY DEF StoryOf!Next
<1>start. StoryOf!Start <=> StoryPhase' = 1 /\ StoryTokens' = 0 /\ status' = "PLAYING"
  BY DEF StoryOf!Start, StoryPhase, StoryTokens
<1>runout. StoryOf!RunOut <=> /\ status # "NOT_STARTED"
                              /\ status' = "TIMEOUT"
                              /\ StoryPhase' = StoryPhase /\ StoryTokens' = StoryTokens
  BY DEF StoryOf!RunOut, StoryOf!Started, StoryPhase, StoryTokens
<1>derail. StoryOf!Derail <=> /\ status # "NOT_STARTED"
                              /\ StoryPhase' = 0 /\ StoryTokens' = 0
                              /\ status' \in {status, "TIMEOUT"}
  BY DEF StoryOf!Derail, StoryOf!Started, StoryPhase, StoryTokens
<1>off. StoryOf!OffStory <=> /\ status = "PLAYING" /\ status' = "WIN"
                             /\ StoryPhase = 0
                             /\ StoryPhase' = StoryPhase /\ StoryTokens' = StoryTokens
  BY DEF StoryOf!OffStory, StoryOf!Started, StoryPhase, StoryTokens
<1>unlock. StoryOf!Unlock <=> /\ StoryPhase \in 1..6
                              /\ StoryPhase' = StoryPhase + 1
                              /\ StoryTokens' = StoryOf!TokensAt[StoryPhase + 1]
                              /\ status' \in {status, "TIMEOUT"}
                              /\ StoryPhase = 6 => status' # "PLAYING"
  BY DEF StoryOf!Unlock, StoryOf!Phases, StoryPhase, StoryTokens
<1>win. StoryOf!Win <=> /\ StoryPhase = 6 /\ StoryPhase' = 7
                        /\ StoryTokens' = StoryOf!TokensAt[7]
                        /\ status = "PLAYING" /\ status' = "WIN"
  BY DEF StoryOf!Win, StoryPhase, StoryTokens
<1>told. Told => /\ phase \in 1..7 /\ token_earned = StoryOf!TokensAt[phase]
                 /\ StoryPhase = phase /\ StoryTokens = token_earned
                 /\ phase = 1 <=> flags["libro"] \in {"ENIGMA_BLOCKED", "ENIGMA_SOLVED"}
  BY OnStoryParts DEF StoryPhase, StoryTokens, Places
<1>untold. ~Told => StoryPhase = 0 /\ StoryTokens = 0
  BY DEF StoryPhase, StoryTokens
<1>told2. /\ Told' => StoryPhase' = phase' /\ StoryTokens' = token_earned'
          /\ ~Told' => StoryPhase' = 0 /\ StoryTokens' = 0
  BY DEF StoryPhase, StoryTokens
<1>1. CASE StartGame
  BY <1>1, <1>start, <1>n, <1>told2 DEF StartGame
<1>2. ASSUME StoryPhase' = StoryPhase /\ StoryTokens' = StoryTokens,
             status' = status \/ (status # "NOT_STARTED" /\ status' = "TIMEOUT")
      PROVE  [StoryOf!Next]_StoryVars
  BY <1>2, <1>runout, <1>n DEF StoryVars
<1>3. ASSUME UNCHANGED <<selected_game, phase, token_earned, phaseLost>>
      PROVE  StoryPhase' = StoryPhase /\ StoryTokens' = StoryTokens
  BY <1>3 DEF StoryPhase, StoryTokens
<1>4. ASSUME ~Told, UNCHANGED <<selected_game, phaseLost>>
      PROVE  StoryPhase' = StoryPhase /\ StoryTokens' = StoryTokens /\ StoryPhase = 0
  BY <1>4 DEF StoryPhase, StoryTokens
<1>5. Play => /\ UNCHANGED selected_game
              /\ status # "NOT_STARTED" /\ status' \in {status, "TIMEOUT"}
  BY DEF Play, Request, StatusNow, Started
<1>6. CASE Observe \/ SolveEnigma \/ \E o \in Objects : Take(o) \/ Drop(o)
  <2>1. Play /\ UNCHANGED <<phase, token_earned, phaseLost>>
    BY <1>6 DEF Observe, SolveEnigma, Take, Drop
  <2> QED
    BY <2>1, <1>5, <1>3, <1>2
<1>7. CASE TakeFull
  <2>1. StoryPhase' = 0 /\ StoryTokens' = 0
    BY <1>7 DEF TakeFull, StoryPhase, StoryTokens
  <2>2. Play
    BY <1>7 DEF TakeFull
  <2> QED
    BY <2>1, <2>2, <1>5, <1>derail, <1>n
<1>8. ASSUME Told, Told', Play, phase \in 1..5, phase' = phase + 1,
             token_earned' = StoryOf!TokensAt[phase + 1]
      PROVE  [StoryOf!Next]_StoryVars
  <2>1. StoryOf!Unlock
    BY <1>8, <1>5, <1>told, <1>told2, <1>unlock
  <2> QED
    BY <2>1, <1>n
<1>9. ASSUME ~Told, Play, UNCHANGED phaseLost
      PROVE  [StoryOf!Next]_StoryVars
  BY <1>9, <1>5, <1>4, <1>2
<1>10. ASSUME Told, selected_game' = selected_game, UNCHANGED phaseLost PROVE Told'
  BY <1>10, Zenon
<1>11. CASE TakeSolved
  <2>1. Play /\ UNCHANGED phaseLost
    BY <1>11 DEF TakeSolved
  <2>2. CASE Told
    <3>1. phase = 1 /\ phase' = 2 /\ token_earned' = token_earned + 1
      BY <1>11, <2>2, <1>told DEF TakeSolved, PayToken
    <3> QED
      BY <2>1, <2>2, <3>1, <1>told, <1>s, <1>5, <1>8, <1>10
  <2> QED
    BY <2>1, <2>2, <1>9
<1>12. CASE UseCristalloBastone \/ UseBastoneLibro \/ UseLibro \/ UseBastoneParteRovinata
  <2>1. Play /\ UNCHANGED phaseLost
    BY <1>12
    DEF UseCristalloBastone, UseBastoneLibro, UseLibro,
        UseBastoneParteRovinata, Advance
  <2>2. CASE Told
    <3>1. /\ phase \in 2..5 /\ phase' = phase + 1
          /\ token_earned' = IF phase = 2 THEN token_earned ELSE token_earned + 1
      BY <1>12
      DEF UseCristalloBastone, UseBastoneLibro, UseLibro,
          UseBastoneParteRovinata, Advance, PayToken
    <3>2. token_earned' = StoryOf!TokensAt[phase + 1]
      BY <3>1, <2>2, <1>told, <1>s
    <3> QED
      BY <2>1, <2>2, <3>1, <3>2, <1>5, <1>8, <1>10
  <2> QED
    BY <2>1, <2>2, <1>9
<1>13. CASE UseLibroEnd
  <2>1. /\ UNCHANGED <<selected_game, phaseLost>> /\ status # "NOT_STARTED"
        /\ phase = 6 /\ phase' = 7 /\ token_earned' = token_earned
        /\ \/ status = "PLAYING" /\ status' = "WIN"
           \/ status' \in {status, "TIMEOUT"} /\ status' # "PLAYING"
    BY <1>13 DEF UseLibroEnd, Request, Advance, StatusNow, Started
  <2>2. CASE Told
    <3>1. StoryPhase = 6 /\ StoryPhase' = 7 /\ StoryTokens' = StoryOf!TokensAt[7]
      BY <2>1, <2>2, <1>told, <1>told2, <1>s, <1>10
    <3> QED
      BY <2>1, <3>1, <1>win, <1>unlock, <1>n
  <2>3. CASE ~Told
    BY <2>1, <2>3, <1>4, <1>2, <1>off, <1>n
  <2> QED
    BY <2>2, <2>3
<1>14. CASE Tick \/ (\E value \in AdminValues : AdminUpdateTime(value)) \/ UNCHANGED vars
  <2>1. UNCHANGED <<selected_game, phase, token_earned, phaseLost, status>>
    BY <1>14 DEF Tick, AdminUpdateTime, vars, game
  <2> QED
    BY <2>1, <1>3, <1>2
<1> QED
  BY <1>1, <1>6, <1>7, <1>11, <1>12, <1>13, <1>14, StepCases

(* Seen without its objects, bag and clock, the game is a behaviour of     *)
(* Story: phases in order unless lost, a token for four of them, one       *)
(* verdict.                                                                *)
THEOREM Game1ImplementsStory == Spec => ImplementsStory
<1>1. Init => StoryOf!Init /\ Started
  BY DEF Init, StoryOf!Init, Started
<1>2. TypeOK /\ OnStory /\ Started /\ [Next]_vars => [StoryOf!Next]_(StoryOf!vars)
  BY StoryStep DEF StoryOf!vars, StoryVars, StoryPhase, StoryTokens
<1> QED
  BY <1>1, <1>2, StartedStep, TypeCorrect, AlwaysOnStory, PTL
  DEF Spec, ImplementsStory, StoryOf!Spec

-----------------------------------------------------------------------------
(* The game under the replies. *)

(* A request with its answer is a request of Game1.                        *)
LEMMA RStepIsStep == [RNext]_rvars => [Next]_vars
<1>1. RStart => Next
  BY DEF RStart, Next
<1>2. Observe => Next
  BY DEF Next, Command
<1>3. \A arg \in Arguments : Look(arg) => Next
  BY <1>2 DEF Look
<1>4. \A o \in Objects : RTake(o) \/ RDrop(o) => Next
  BY <1>2 DEF RTake, RDrop, Next, Command
<1>5. \A right \in BOOLEAN : Solution(right) => Next
  BY <1>2 DEF Solution, Next, Command
<1>6. \A arg \in Uses : RUse(arg) => Next
  BY <1>2 DEF RUse, Use, Next, Command
<1>7. Untold => Next
  BY DEF Untold, Next
<1> QED
  BY <1>1, <1>2, <1>3, <1>4, <1>5, <1>6, <1>7 DEF RNext, RData, rvars

(* So every invariant of Game1 is one of Replies.                          *)
LEMMA RepliesPlayGame1 == RSpec => Spec
<1>1. RInit => Init
  BY DEF RInit
<1> QED
  BY <1>1, RStepIsStep, PTL DEF RSpec, Spec

-----------------------------------------------------------------------------
(* The messages. *)

(* The phase whose message look gives of a thing.                          *)
Known(arg) == {p \in 1..6 : p <= phase /\ arg \in LookTests[p]}

(* look gives the one of the latest phase that has one.                    *)
LEMMA LookIsLatest ==
  ASSUME phase \in Int, NEW arg
  PROVE  \/ Known(arg) = {} /\ LookReply(arg) = <<0, "look", "wrong">>
         \/ \E p \in Known(arg) : /\ \A q \in Known(arg) : q <= p
                                  /\ LookReply(arg) = <<p, "look", arg>>
<1> DEFINE Latest(n, id) ==
             \/ id = <<0, "look", "wrong">> /\ \A q \in Known(arg) : q > n
             \/ \E p \in Known(arg) : /\ \A q \in Known(arg) : q <= n => q <= p
                                      /\ id = <<p, "look", arg>>
<1>1. Latest(0, <<0, "look", "wrong">>)
  BY DEF Known
<1>2. ASSUME NEW n \in 1..6, NEW id, Latest(n - 1, id) PROVE Latest(n, Test(n, arg, id))
  <2>1. CASE n \in Known(arg)
    <3>1. Test(n, arg, id) = <<n, "look", arg>>
      BY <2>1 DEF Test, Known
    <3>2. \A q \in Known(arg) : q <= n => q <= n
      OBVIOUS
    <3> QED
      BY <2>1, <3>1, <3>2
  <2>2. CASE n \notin Known(arg)
    <3>1. Test(n, arg, id) = id
      BY <2>2 DEF Test, Known
    <3>2. \A q \in Known(arg) : q \in Int /\ q # n
      BY <2>2 DEF Known
    <3>3. CASE id = <<0, "look", "wrong">> /\ \A q \in Known(arg) : q > n - 1
      BY <3>1, <3>2, <3>3
    <3>4. CASE \E p \in Known(arg) : /\ \A q \in Known(arg) : q <= n - 1 => q <= p
                                     /\ id = <<p, "look", arg>>
      BY <3>1, <3>2, <3>4
    <3> QED
      BY <1>2, <3>3, <3>4
  <2> QED
    BY <2>1, <2>2
<1> HIDE DEF Latest
<1>3. Latest(6, LookReply(arg))
  <2> DEFINE r1 == Test(1, arg, <<0, "look", "wrong">>)
             r2 == Test(2, arg, r1)
             r3 == Test(3, arg, r2)
             r4 == Test(4, arg, r3)
             r5 == Test(5, arg, r4)
  <2> HIDE DEF r1, r2, r3, r4, r5
  <2>1. Latest(1, r1)
    BY <1>1, <1>2 DEF r1
  <2>2. Latest(2, r2)
    BY <2>1, <1>2 DEF r2
  <2>3. Latest(3, r3)
    BY <2>2, <1>2 DEF r3
  <2>4. Latest(4, r4)
    BY <2>3, <1>2 DEF r4
  <2>5. Latest(5, r5)
    BY <2>4, <1>2 DEF r5
  <2>6. Latest(6, Test(6, arg, r5))
    BY <2>5, <1>2
  <2> QED
    BY <2>6 DEF LookReply, r1, r2, r3, r4, r5
<1>4. \A q \in Known(arg) : q \in 1..6
  BY DEF Known
<1> QED
  BY <1>3, <1>4 DEF Latest

(* What the table has of a thing that is looked at.                        *)
LEMMA LookMessages ==
  ASSUME NEW p \in 1..6, NEW arg
  PROVE  <<p, "look", arg>> \in Messages <=> arg \in LookTests[p]
<1>1. LookTests = LookTable
  BY DEF LookTests, LookTable
<1>2. <<p, "look", arg>> \notin General
  BY DEF General
<1>3. <<p, "look", arg>> \notin Story1 /\ <<p, "look", arg>> \notin Later
  BY DEF Story1, Later, Question, Right
<1>4. <<p, "look", arg>> \in UNION {{<<q, "look", a>> : a \in LookTable[q]} : q \in 1..6}
        <=> arg \in LookTable[p]
  OBVIOUS
<1> QED
  BY <1>1, <1>2, <1>3, <1>4 DEF Messages

(* The table has the messages that any phase may be answered with.         *)
LEMMA Composed ==
  /\ \A verb \in {"look", "take", "drop", "use"} : <<0, verb, "wrong">> \in Messages
  /\ <<0, "take", "full">> \in Messages /\ <<0, "take", "already">> \in Messages
  /\ <<0, "drop", "success">> \in Messages /\ <<0, "use", "missing">> \in Messages
  /\ \A o \in Objects : <<1, "take", o>> \in Messages
  /\ Question \in Messages /\ Right \in Messages /\ <<1, "wrong", "libro">> \in Messages
  /\ <<6, "take", "libro">> \in Messages
  /\ <<2, "use", "cristallo bastone">> \in Messages /\ <<3, "use", "bastone libro">> \in Messages
  /\ <<4, "use", "libro">> \in Messages /\ <<5, "use", "bastone parte_rovinata">> \in Messages
  /\ <<6, "use", "libro">> \in Messages
<1>1. General \cup Story1 \cup Later \subseteq Messages
  BY DEF Messages
<1>2. /\ \A verb \in {"look", "take", "drop", "use"} : <<0, verb, "wrong">> \in General
      /\ <<0, "take", "full">> \in General /\ <<0, "take", "already">> \in General
      /\ <<0, "drop", "success">> \in General /\ <<0, "use", "missing">> \in General
  BY DEF General
<1>3. /\ \A o \in Objects : <<1, "take", o>> \in Story1
      /\ Question \in Story1 /\ Right \in Story1 /\ <<1, "wrong", "libro">> \in Story1
  BY DEF Story1
<1>4. /\ <<6, "take", "libro">> \in Later
      /\ <<2, "use", "cristallo bastone">> \in Later /\ <<3, "use", "bastone libro">> \in Later
      /\ <<4, "use", "libro">> \in Later /\ <<5, "use", "bastone parte_rovinata">> \in Later
      /\ <<6, "use", "libro">> \in Later
  BY DEF Later
<1> QED
  BY <1>1, <1>2, <1>3, <1>4

(* What each phase is to be used.                                          *)
LEMMA UsedInPhase ==
  /\ Used[2].arg = "cristallo bastone" /\ Used[2].held = {"cristallo", "bastone"}
  /\ Used[3].arg = "bastone libro" /\ Used[3].held = {"bastone", "libro"}
  /\ Used[4].arg = "libro" /\ Used[4].held = {"libro"}
  /\ Used[5].arg = "bastone parte_rovinata" /\ Used[5].held = {"bastone"}
  /\ Used[6].arg = "libro" /\ Used[6].held = {"libro"}
<1> DEFINE joined == "cristallo bastone"
           gained == "bastone libro"
           mended == "bastone parte_rovinata"
           both == {"cristallo", "bastone"}
           pair == {"bastone", "libro"}
           book == {"libro"}
           rod  == {"bastone"}
<1>1. Used[2] = [arg |-> joined, held |-> both]
  BY DEF Used
<1>2. Used[3] = [arg |-> gained, held |-> pair]
  BY DEF Used
<1>3. Used[4] = [arg |-> "libro", held |-> book] /\ Used[6] = [arg |-> "libro", held |-> book]
  BY DEF Used
<1>4. Used[5] = [arg |-> mended, held |-> rod]
  BY DEF Used
<1> HIDE DEF joined, gained, mended, both, pair, book, rod
<1>5. Used[2].arg = joined /\ Used[2].held = both
  BY <1>1
<1>6. Used[3].arg = gained /\ Used[3].held = pair
  BY <1>2
<1>7. /\ Used[4].arg = "libro" /\ Used[4].held = book
      /\ Used[6].arg = "libro" /\ Used[6].held = book
  BY <1>3
<1>8. Used[5].arg = mended /\ Used[5].held = rod
  BY <1>4
<1> QED
  BY <1>5, <1>6, <1>7, <1>8 DEF joined, gained, mended, both, pair, book, rod

(* use is answered with the phase's message exactly when what the phase    *)
(* needs is held.                                                          *)
LEMMA UseReplies ==
  ASSUME phase \in Int, NEW arg
  PROVE  /\ UseReply(arg) \in Messages
         /\ IF Fits(arg) /\ Used[phase].held \subseteq Bag
            THEN phase \in 2..6 /\ UseReply(arg) = <<phase, "use", arg>>
            ELSE \E what : UseReply(arg) = <<0, "use", what>>
<1>1. CASE Fits(arg) /\ Used[phase].held \subseteq Bag
  <2>1. UseReply(arg) = <<phase, "use", arg>> /\ phase \in 2..6 /\ arg = Used[phase].arg
    BY <1>1 DEF UseReply, Fits
  <2>2. phase \in {2, 3, 4, 5, 6}
    BY <2>1
  <2>3. <<phase, "use", Used[phase].arg>> \in Messages
    BY <2>2, UsedInPhase, Composed
  <2> QED
    BY <1>1, <2>1, <2>3
<1>2. CASE ~(Fits(arg) /\ Used[phase].held \subseteq Bag)
  <2>1. UseReply(arg) \in {<<0, "use", "missing">>, <<0, "use", "wrong">>}
    BY <1>2 DEF UseReply
  <2> QED
    BY <1>2, <2>1, Composed
<1> QED
  BY <1>1, <1>2

(* Every answer is in the table.                                           *)
LEMMA Answers ==
  ASSUME phase \in Int
  PROVE  /\ \A arg : LookReply(arg) \in Messages
         /\ \A o \in Objects : TakeReply(o) \in Messages
         /\ \A right \in BOOLEAN : SolutionReply(right) \in Messages
         /\ \A o \in Objects : DropReply(o) \in Messages
<1>1. ASSUME NEW arg PROVE LookReply(arg) \in Messages
  <2>1. CASE LookReply(arg) = <<0, "look", "wrong">>
    BY <2>1, Composed
  <2>2. ASSUME NEW p \in Known(arg), LookReply(arg) = <<p, "look", arg>>
        PROVE  LookReply(arg) \in Messages
    <3>1. p \in 1..6 /\ arg \in LookTests[p]
      BY DEF Known
    <3> QED
      BY <2>2, <3>1, LookMessages
  <2> QED
    BY <2>1, <2>2, LookIsLatest
<1>2. ASSUME NEW o \in Objects PROVE TakeReply(o) \in Messages
  <2>1. TakeReply(o) \in {<<0, "take", "full">>, <<1, "take", "parte_rovinata">>,
                          <<0, "take", "already">>, <<1, "take", o>>, Question, <<0, "take", "wrong">>}
        \/ (o = "libro" /\ TakeReply(o) = <<6, "take", "libro">>)
    BY DEF TakeReply
  <2>2. <<1, "take", "parte_rovinata">> \in Messages
    BY Composed DEF Objects
  <2> QED
    BY <2>1, <2>2, Composed
<1>3. ASSUME NEW right \in BOOLEAN PROVE SolutionReply(right) \in Messages
  BY Composed DEF SolutionReply
<1>4. ASSUME NEW o \in Objects PROVE DropReply(o) \in Messages
  BY Composed DEF DropReply
<1> QED
  BY <1>1, <1>2, <1>3, <1>4

(* So whoever is told something is told a message.                         *)
LEMMA TellsMessage ==
  ASSUME phase \in Int, [RNext]_rvars
  PROVE  reply' \in Messages \cup {Data} \/ reply' = reply
<1>1. ASSUME NEW id \in Messages, NEW arg, Tell(id, arg) PROVE reply' \in Messages
  BY <1>1 DEF Tell, getMessage
<1>2. CASE \E arg \in Arguments : Look(arg)
  BY <1>1, <1>2, Answers DEF Look
<1>3. CASE \E o \in Objects : RTake(o) \/ RDrop(o)
  BY <1>1, <1>3, Answers DEF RTake, RDrop
<1>4. CASE \E right \in BOOLEAN : Solution(right)
  BY <1>1, <1>4, Answers DEF Solution
<1>5. CASE \E arg \in Uses : RUse(arg)
  BY <1>1, <1>5, UseReplies DEF RUse
<1> QED
  BY <1>2, <1>3, <1>4, <1>5 DEF RNext, RStart, RData, Untold, rvars

(* Whatever is asked and in whatever phase, also one outside the story, no *)
(* answer is missing from the table, and look tells the latest of a thing. *)
THEOREM AnswersInStep == RSpec => []MessagesInStep
<1> DEFINE R == reply \in Messages \cup {Data}
<1>1. RInit => R
  BY DEF RInit
<1>2. TypeOK => phase \in Int
  BY DEF TypeOK
<1>3. TypeOK /\ R /\ [RNext]_rvars => R'
  BY <1>2, TellsMessage
<1>4. TypeOK /\ R => MessagesInStep
  <2> SUFFICES ASSUME phase \in Int, phase >= 1, NEW arg \in Arguments
               PROVE  LET known == {p \in 1..6 : p <= phase /\ <<p, "look", arg>> \in Messages}
                      IN  known # {} /\ LookReply(arg) = <<CHOOSE p \in known : \A q \in known : q <= p, "look", arg>>
    BY <1>2 DEF MessagesInStep
  <2> DEFINE known == {p \in 1..6 : p <= phase /\ <<p, "look", arg>> \in Messages}
  <2>1. known = Known(arg)
    BY LookMessages DEF Known
  <2>2. 1 \in Known(arg)
    <3>1. arg \in LookTests[1]
      BY DEF Arguments, Objects, LookTests
    <3> QED
      BY <3>1 DEF Known
  <2>3. PICK p \in Known(arg) : /\ \A q \in Known(arg) : q <= p
                                /\ LookReply(arg) = <<p, "look", arg>>
    BY <2>2, LookIsLatest
  <2>4. Known(arg) \subseteq Int
    BY DEF Known
  <2>5. p = CHOOSE r \in Known(arg) : \A q \in Known(arg) : q <= r
    BY <2>3, <2>4
  <2> QED
    BY <2>1, <2>2, <2>3, <2>5
<1> HIDE DEF R
<1>5. RSpec => []TypeOK
  BY RepliesPlayGame1, TypeCorrect, PTL
<1> QED
  BY <1>1, <1>3, <1>4, <1>5, PTL DEF RSpec

-----------------------------------------------------------------------------
(* The player's picture. *)

ViewTyped == view \in [phase : Int, held : SUBSET Objects, solved : BOOLEAN]

(* What is believed of the game.                                           *)
Believed(p, h, s) == view.phase = p /\ view.held = h /\ view.solved = s

(* What changes the picture, and how.                                      *)
LEMMA Understood ==
  ASSUME ViewTyped
  PROVE  /\ \A at \in Nat \ {0}, o \in Objects \ {"parte_rovinata"} :
              LET u == Understand(<<at, "take", o>>, o)
              IN  /\ u.phase = IF view.phase = 1 /\ o = "libro" THEN 2 ELSE view.phase
                  /\ u.held = view.held \cup {o} /\ u.solved = view.solved
         /\ \A arg : LET u == Understand(Right, arg)
                     IN  u.phase = view.phase /\ u.held = view.held /\ u.solved = TRUE
         /\ \A arg : LET u == Understand(<<0, "drop", "success">>, arg)
                     IN  u.phase = view.phase /\ u.held = view.held \ {arg} /\ u.solved = view.solved
         /\ \A at \in Nat \ {0} : \A x, arg :
              LET u == Understand(<<at, "use", x>>, arg)
              IN  u.phase = at + 1 /\ u.held = view.held \ Leaves[at] /\ u.solved = view.solved
<1>1. ASSUME NEW at \in Nat \ {0}, NEW o \in Objects \ {"parte_rovinata"}
      PROVE  LET u == Understand(<<at, "take", o>>, o)
             IN  /\ u.phase = IF view.phase = 1 /\ o = "libro" THEN 2 ELSE view.phase
                 /\ u.held = view.held \cup {o} /\ u.solved = view.solved
  <2>1. Understand(<<at, "take", o>>, o) =
          [view EXCEPT !.held = @ \cup {o},
                       !.phase = IF @ = 1 /\ o = "libro" THEN 2 ELSE @]
    BY DEF Understand, Right
  <2> QED
    BY <2>1 DEF ViewTyped
<1>2. ASSUME NEW arg
      PROVE  LET u == Understand(Right, arg)
             IN  u.phase = view.phase /\ u.held = view.held /\ u.solved = TRUE
  <2>1. Understand(Right, arg) = [view EXCEPT !.solved = TRUE]
    BY DEF Understand, Right
  <2> QED
    BY <2>1 DEF ViewTyped
<1>3. ASSUME NEW arg
      PROVE  LET u == Understand(<<0, "drop", "success">>, arg)
             IN  u.phase = view.phase /\ u.held = view.held \ {arg} /\ u.solved = view.solved
  <2>1. Understand(<<0, "drop", "success">>, arg) = [view EXCEPT !.held = @ \ {arg}]
    BY DEF Understand, Right
  <2> QED
    BY <2>1 DEF ViewTyped
<1>4. ASSUME NEW at \in Nat \ {0}, NEW x, NEW arg
      PROVE  LET u == Understand(<<at, "use", x>>, arg)
             IN  u.phase = at + 1 /\ u.held = view.held \ Leaves[at] /\ u.solved = view.solved
  <2>1. Understand(<<at, "use", x>>, arg) = [view EXCEPT !.phase = at + 1, !.held = @ \ Leaves[at]]
    BY DEF Understand, Right
  <2> QED
    BY <2>1 DEF ViewTyped
<1> QED
  BY <1>1, <1>2, <1>3, <1>4

(* What leaves it as it is: a thing looked at, a refusal, the question.    *)
LEMMA Unmoved ==
  /\ \A p, x, arg : Understand(<<p, "look", x>>, arg) = view
  /\ \A x, arg : Understand(<<0, "take", x>>, arg) = view
  /\ \A x, arg : Understand(<<0, "use", x>>, arg) = view
  /\ \A arg : Understand(<<0, "drop", "wrong">>, arg) = view
  /\ \A arg : Understand(Question, arg) = view
  /\ \A x, arg : Understand(<<1, "wrong", x>>, arg) = view
  /\ \A at : Understand(<<at, "take", "parte_rovinata">>, "parte_rovinata") = view
<1>1. \A p, x, arg : Understand(<<p, "look", x>>, arg) = view
  BY DEF Understand, Right
<1>2. \A x, arg : Understand(<<0, "take", x>>, arg) = view
  BY DEF Understand, Right
<1>3. \A x, arg : Understand(<<0, "use", x>>, arg) = view
  BY DEF Understand, Right
<1>4. \A arg : Understand(<<0, "drop", "wrong">>, arg) = view
  BY DEF Understand, Right
<1>5. \A arg : Understand(Question, arg) = view
  BY DEF Understand, Right, Question
<1>6. \A x, arg : Understand(<<1, "wrong", x>>, arg) = view
  BY DEF Understand, Right
<1>7. \A at : Understand(<<at, "take", "parte_rovinata">>, "parte_rovinata") = view
  BY DEF Understand, Right
<1> QED
  BY <1>1, <1>2, <1>3, <1>4, <1>5, <1>6, <1>7

(* What the player holds when a phase is over is less by what it takes.    *)
LEMMA LeftBehind ==
  Leaves[2] = {"cristallo"} /\ Leaves[3] = {} /\ Leaves[4] = {"libro"} /\ Leaves[5] = {}
  /\ Leaves[6] = {"libro"}
  BY DEF Leaves

(* A game is told while it is selected and its phase is not lost.          *)
Told  == selected_game /\ ~phaseLost
Agree == /\ view.phase = phase
         /\ view.held = Bag
         /\ phase = 1 => (view.solved <=> flags["libro"] = "ENIGMA_SOLVED")

(* On the story, the two agree on what is held.                            *)
LEMMA Agreeing == TypeOK /\ OnStory => (ViewAgrees <=> (Told => Agree))
<1> SUFFICES ASSUME TypeOK, OnStory, Told PROVE Bag = Listed
  BY DEF ViewAgrees, Told, Agree
<1>1. flags["parte_rovinata"] = "LOCKED"
  BY DEF OnStory, Told
<1>2. Objects = {"libro", "cristallo", "bastone", "parte_rovinata"}
  BY DEF Objects
<1> QED
  BY <1>1, <1>2 DEF Bag, Listed, Held

(* What a selected game that is on its story looks like.                   *)
LEMMA ToldGame ==
  TypeOK /\ OnStory /\ Told => Typed /\ phase \in 1..7 /\ Places(phase, flags)
  BY OnStoryParts, SelectedTyped DEF Told

(* Moving one object in or out of the bag.                                 *)
LEMMA BagMoves ==
  ASSUME Typed, NEW o \in Objects, NEW v, flags' = [flags EXCEPT ![o] = v]
  PROVE  /\ Bag' = IF v = "IN_BAG" THEN Bag \cup {o} ELSE Bag \ {o}
         /\ flags'[o] = v /\ \A x \in Objects : x # o => flags'[x] = flags[x]
<1>1. flags'[o] = v /\ \A x \in Objects : x # o => flags'[x] = flags[x]
  BY DEF Typed
<1>2. \A x : x \in Bag' <=> x \in Objects /\ flags'[x] = "IN_BAG"
  BY DEF Bag
<1>3. \A x : x \in Bag <=> x \in Objects /\ flags[x] = "IN_BAG"
  BY DEF Bag
<1>4. \A x : x \in Bag' <=> x \in IF v = "IN_BAG" THEN Bag \cup {o} ELSE Bag \ {o}
  BY <1>1, <1>2, <1>3
<1>5. Bag' = IF v = "IN_BAG" THEN Bag \cup {o} ELSE Bag \ {o}
  BY <1>4
<1> QED
  BY <1>1, <1>5

(* An object that is put elsewhere is held no more.                        *)
LEMMA BagLoses ==
  ASSUME Typed, NEW o \in Objects, NEW v, v # "IN_BAG", flags' = [flags EXCEPT ![o] = v]
  PROVE  Bag' = Bag \ {o}
  BY BagMoves

(* A request that is only observed keeps the game, and an unmoved picture  *)
(* keeps agreeing with it.                                                 *)
LEMMA ObserveAgrees ==
  ASSUME Told => Agree, Observe \/ UNCHANGED <<selected_game, phase, flags, phaseLost>>,
         view' = view, Told'
  PROVE  Agree'
<1>1. UNCHANGED <<selected_game, phase, flags, phaseLost>>
  BY DEF Observe, Play, Request
<1>2. Bag' = Bag
  BY <1>1 DEF Bag
<1> QED
  BY <1>1, <1>2 DEF Told, Agree

(* The picture after a take.                                               *)
LEMMA TakeAgrees ==
  ASSUME TypeOK, OnStory, ViewTyped, Told => Agree, NEW o \in Objects, RTake(o), Told'
  PROVE  Agree'
<1>1. ~TakeFull /\ Told /\ Agree
  <2>1. ~phaseLost' /\ UNCHANGED <<selected_game>>
    BY DEF Told, RTake, TakeFull, Take, TakeSolved, Observe, Play, Request
  <2>2. ~TakeFull
    BY <2>1 DEF TakeFull
  <2>3. selected_game /\ phaseLost' = phaseLost
    BY <2>2 DEF RTake, Take, TakeSolved, Observe, Play, Request
  <2>4. Told
    BY <2>1, <2>3, Zenon DEF Told
  <2> QED
    BY <2>2, <2>4
<1>2. Typed /\ phase \in 1..7 /\ Places(phase, flags)
  BY <1>1, ToldGame
<1>3. view' = Understand(TakeReply(o), o)
  BY DEF RTake, Tell
<1>4. view.phase = phase /\ view.held = Bag
      /\ (phase = 1 => (view.solved <=> flags["libro"] = "ENIGMA_SOLVED"))
  BY <1>1 DEF Agree
<1>5. "libro" \in Objects /\ "libro" # "parte_rovinata"
  BY DEF Objects
<1>6. CASE Take(o)
  <2>1. /\ ~BagFull /\ o # "parte_rovinata" /\ flags[o] = "FREE"
        /\ flags' = [flags EXCEPT ![o] = "IN_BAG"] /\ phase' = phase
    BY <1>6 DEF Take
  <2>2. TakeReply(o) = <<IF o = "libro" /\ phase = 6 THEN 6 ELSE 1, "take", o>>
    BY <2>1 DEF TakeReply
  <2>3. PICK at \in Nat \ {0} : TakeReply(o) = <<at, "take", o>>
    BY <2>2
  <2>4. /\ view'.phase = IF view.phase = 1 /\ o = "libro" THEN 2 ELSE view.phase
        /\ view'.held = view.held \cup {o} /\ view'.solved = view.solved
    BY <1>3, <2>1, <2>3, Understood
  <2>5. phase = 1 => o # "libro"
    BY <1>2, <2>1 DEF Places
  <2>6. view'.phase = phase /\ view'.held = Bag \cup {o} /\ view'.solved = view.solved
    BY <1>4, <2>4, <2>5
  <2>7. Bag' = Bag \cup {o} /\ (phase = 1 => flags'["libro"] = flags["libro"])
    BY <1>2, <1>5, <2>1, <2>5, BagMoves
  <2> QED
    BY <1>4, <2>1, <2>6, <2>7 DEF Agree
<1>7. CASE o = "libro" /\ TakeSolved
  <2>1. /\ ~BagFull /\ flags["libro"] = "ENIGMA_SOLVED"
        /\ flags' = [flags EXCEPT !["libro"] = "IN_BAG"]
        /\ phase = 1 /\ phase' = 2
    <3>1. phase = 1
      BY <1>2, <1>7 DEF TakeSolved, Places
    <3> QED
      BY <1>7, <3>1 DEF TakeSolved
  <2>2. TakeReply("libro") = <<1, "take", "libro">>
    BY <2>1 DEF TakeReply
  <2>3. /\ view'.phase = IF view.phase = 1 /\ o = "libro" THEN 2 ELSE view.phase
        /\ view'.held = view.held \cup {o}
    BY <1>3, <1>5, <1>7, <2>2, Understood
  <2>4. view'.phase = 2 /\ view'.held = Bag \cup {"libro"}
    BY <1>4, <1>7, <2>1, <2>3
  <2>5. Bag' = Bag \cup {"libro"}
    BY <1>2, <1>5, <2>1, BagMoves
  <2> QED
    BY <2>1, <2>4, <2>5 DEF Agree
<1>8. CASE /\ Observe /\ ~BagFull
           /\ o = "parte_rovinata" \/ flags[o] \notin {"FREE", "ENIGMA_SOLVED"}
  <2>1. CASE o = "parte_rovinata"
    <3>1. TakeReply(o) = <<1, "take", "parte_rovinata">>
      BY <1>8, <2>1 DEF TakeReply
    <3>2. view' = view
      BY <1>3, <2>1, <3>1, Unmoved
    <3> QED
      BY <1>1, <1>8, <3>2, ObserveAgrees
  <2>2. CASE o # "parte_rovinata" /\ flags[o] \notin {"FREE", "ENIGMA_SOLVED"}
    <3>1. TakeReply(o) \in {<<0, "take", "already">>, Question, <<0, "take", "wrong">>}
      BY <1>8, <2>2 DEF TakeReply
    <3>2. view' = view
      BY <1>3, <3>1, Unmoved
    <3> QED
      BY <1>1, <1>8, <3>2, ObserveAgrees
  <2> QED
    BY <1>8, <2>1, <2>2
<1> QED
  BY <1>1, <1>6, <1>7, <1>8 DEF RTake

(* ... a solution, right or wrong.                                         *)
LEMMA SolutionAgrees ==
  ASSUME TypeOK, OnStory, ViewTyped, Told => Agree, NEW right \in BOOLEAN, Solution(right), Told'
  PROVE  Agree'
<1>1. ~TakeFull /\ Told /\ Agree
  <2>1. ~TakeFull
    BY DEF Told, TakeFull
  <2>2. selected_game /\ phaseLost' = phaseLost
    BY <2>1 DEF Solution, SolveEnigma, Observe, Play, Request
  <2>3. Told
    BY <2>2, Zenon DEF Told
  <2> QED
    BY <2>1, <2>3
<1>2. Typed /\ phase \in 1..7 /\ Places(phase, flags)
  BY <1>1, ToldGame
<1>3. view' = Understand(SolutionReply(right), "libro")
  BY DEF Solution, Tell
<1>4. CASE right /\ SolveEnigma
  <2>1. /\ ~BagFull /\ phase = 1 /\ phase' = phase
        /\ flags' = [flags EXCEPT !["libro"] = "ENIGMA_SOLVED"]
    BY <1>4 DEF SolveEnigma
  <2>2. SolutionReply(right) = Right
    BY <1>4, <2>1 DEF SolutionReply
  <2>4. view'.solved = TRUE /\ view'.phase = view.phase /\ view'.held = view.held
    BY <1>3, <2>2, Understood
  <2>5. "libro" \notin Bag
    BY <1>2, <2>1 DEF Places, Bag
  <2>6. Bag' = Bag /\ flags'["libro"] = "ENIGMA_SOLVED"
    <3>1. "libro" \in Objects
      BY DEF Objects
    <3>2. Bag' = Bag \ {"libro"} /\ flags'["libro"] = "ENIGMA_SOLVED"
      BY <1>2, <2>1, <3>1, BagMoves
    <3> QED
      BY <2>5, <3>2
  <2> QED
    BY <1>1, <2>1, <2>4, <2>6 DEF Agree
<1>5. CASE Observe /\ ~BagFull /\ ~(right /\ phase = 1)
  <2>1. SolutionReply(right) \in {<<1, "wrong", "libro">>, <<0, "take", "wrong">>}
    BY <1>5 DEF SolutionReply
  <2>2. view' = view
    BY <1>3, <2>1, Unmoved
  <2> QED
    BY <1>1, <1>5, <2>2, ObserveAgrees
<1> QED
  BY <1>1, <1>4, <1>5 DEF Solution

(* ... a drop.                                                             *)
LEMMA DropAgrees ==
  ASSUME TypeOK, OnStory, ViewTyped, Told => Agree, NEW o \in Objects, RDrop(o), Told'
  PROVE  Agree'
<1>1. Told /\ Agree
  <2>1. selected_game /\ phaseLost' = phaseLost
    BY DEF RDrop, Drop, Observe, Play, Request
  <2>2. Told
    BY <2>1, Zenon DEF Told
  <2> QED
    BY <2>2
<1>2. Typed /\ phase \in 1..7 /\ Places(phase, flags)
  BY <1>1, ToldGame
<1>3. view' = Understand(DropReply(o), o)
  BY DEF RDrop, Tell
<1>4. CASE Drop(o)
  <2>1. /\ o # "parte_rovinata" /\ Held(o) /\ phase' = phase
        /\ flags' = [flags EXCEPT ![o] = "FREE"]
    BY <1>4 DEF Drop
  <2>2. DropReply(o) = <<0, "drop", "success">>
    BY <2>1 DEF DropReply
  <2>4. view'.solved = view.solved /\ view'.phase = view.phase /\ view'.held = view.held \ {o}
    BY <1>3, <2>2, Understood
  <2>5. phase = 1 => o # "libro"
    BY <1>2, <2>1 DEF Places, Held
  <2>6. Bag' = Bag \ {o} /\ (phase = 1 => flags'["libro"] = flags["libro"])
    <3>1. "libro" \in Objects
      BY DEF Objects
    <3> QED
      BY <1>2, <2>1, <2>5, <3>1, BagMoves
  <2> QED
    BY <1>1, <2>1, <2>4, <2>6 DEF Agree
<1>5. CASE Observe /\ (o = "parte_rovinata" \/ ~Held(o))
  <2>1. DropReply(o) = <<0, "drop", "wrong">>
    BY <1>5 DEF DropReply
  <2>2. view' = view
    BY <1>3, <2>1, Unmoved
  <2> QED
    BY <1>1, <1>5, <2>2, ObserveAgrees
<1> QED
  BY <1>4, <1>5 DEF RDrop

(* ... a use: the story goes on, and leaves behind what the phase takes.   *)
LEMMA UseAgrees ==
  ASSUME TypeOK, OnStory, ViewTyped, Told => Agree, NEW arg \in Uses, RUse(arg), Told'
  PROVE  Agree'
<1>1. Told /\ Agree
  <2>1. selected_game /\ phaseLost' = phaseLost
    BY DEF RUse, UseCristalloBastone, UseBastoneLibro, UseLibro, UseLibroEnd,
           UseBastoneParteRovinata, Advance, Observe, Play, Request
  <2>2. Told
    BY <2>1, Zenon DEF Told
  <2> QED
    BY <2>2
<1>2. Typed /\ phase \in 1..7 /\ Places(phase, flags)
  BY <1>1, ToldGame
<1>3. view' = Understand(UseReply(arg), arg)
  BY DEF RUse, Tell
<1>4. CASE Observe /\ ~(Fits(arg) /\ Used[phase].held \subseteq Bag)
  <2>1. PICK what : UseReply(arg) = <<0, "use", what>>
    BY <1>2, <1>4, UseReplies
  <2>2. view' = view
    BY <1>3, <2>1, Unmoved
  <2> QED
    BY <1>1, <1>4, <2>2, ObserveAgrees
<1>5. ASSUME phase \in 2..6, Fits(arg), Used[phase].held \subseteq Bag,
             phase' = phase + 1, Bag' = Bag \ Leaves[phase]
      PROVE  Agree'
  <2>1. UseReply(arg) = <<phase, "use", arg>> /\ phase \in Nat \ {0}
    BY <1>2, <1>5, UseReplies
  <2>3. view'.phase = phase + 1 /\ view'.held = view.held \ Leaves[phase]
    BY <1>3, <2>1, Understood
  <2> QED
    BY <1>1, <1>5, <2>1, <2>3 DEF Agree
<1>o. "libro" \in Objects /\ "cristallo" \in Objects /\ "bastone" \in Objects
  BY DEF Objects
<1>t. Typed
  BY <1>2
<1>6. \A x \in Objects : x \in Bag <=> Held(x)
  BY DEF Bag, Held
<1>7. CASE arg = "cristallo bastone" /\ UseCristalloBastone
  <2>1. /\ phase = 2 /\ phase' = phase + 1 /\ Held("cristallo") /\ Held("bastone")
        /\ flags' = [flags EXCEPT !["cristallo"] = "LOCKED"]
    BY <1>7 DEF UseCristalloBastone, Advance
  <2>2. Bag' = Bag \ {"cristallo"}
    <3>1. flags' = [flags EXCEPT !["cristallo"] = "LOCKED"]
      BY <2>1
    <3> QED
      BY <1>t, <1>o, <3>1, BagLoses
  <2>3. Used[phase].held \subseteq Bag /\ Fits(arg)
    <3>1. Used[phase].arg = "cristallo bastone" /\ Used[phase].held = {"cristallo", "bastone"}
      BY <2>1, UsedInPhase
    <3>2. \A x \in Used[phase].held : x \in Bag
      BY <1>o, <1>6, <2>1, <3>1
    <3>3. phase \in 2..6
      BY <2>1
    <3>4. arg = Used[phase].arg
      BY <1>7, <3>1, Zenon
    <3> QED
      BY <3>2, <3>3, <3>4 DEF Fits
  <2> QED
    BY <1>5, <2>1, <2>2, <2>3, LeftBehind
<1>8. CASE arg = "bastone libro" /\ UseBastoneLibro
  <2>1. /\ phase = 3 /\ phase' = phase + 1 /\ Held("bastone") /\ Held("libro")
        /\ flags' = [flags EXCEPT !["cristallo"] = "LOCKED"]
    BY <1>8 DEF UseBastoneLibro, Advance
  <2>2. "cristallo" \notin Bag
    BY <1>2, <1>o, <1>6, <2>1 DEF Places, Held
  <2>3. Bag' = Bag \ {"cristallo"}
    <3>1. flags' = [flags EXCEPT !["cristallo"] = "LOCKED"]
      BY <2>1
    <3> QED
      BY <1>t, <1>o, <3>1, BagLoses
  <2>4. Used[phase].held \subseteq Bag /\ Fits(arg)
    <3>1. Used[phase].arg = "bastone libro" /\ Used[phase].held = {"bastone", "libro"}
      BY <2>1, UsedInPhase
    <3>2. \A x \in Used[phase].held : x \in Bag
      BY <1>o, <1>6, <2>1, <3>1
    <3>3. phase \in 2..6
      BY <2>1
    <3>4. arg = Used[phase].arg
      BY <1>8, <3>1, Zenon
    <3> QED
      BY <3>2, <3>3, <3>4 DEF Fits
  <2> QED
    BY <1>5, <2>1, <2>2, <2>3, <2>4, LeftBehind
<1>9. CASE arg = "libro" /\ UseLibro
  <2>1. /\ phase = 4 /\ phase' = phase + 1 /\ Held("libro")
        /\ flags' = [flags EXCEPT !["libro"] = "LOCKED"]
    BY <1>9 DEF UseLibro, Advance
  <2>2. Bag' = Bag \ {"libro"}
    <3>1. flags' = [flags EXCEPT !["libro"] = "LOCKED"]
      BY <2>1
    <3> QED
      BY <1>t, <1>o, <3>1, BagLoses
  <2>3. Used[phase].held \subseteq Bag /\ Fits(arg)
    <3>1. Used[phase].arg = "libro" /\ Used[phase].held = {"libro"}
      BY <2>1, UsedInPhase
    <3>2. \A x \in Used[phase].held : x \in Bag
      BY <1>o, <1>6, <2>1, <3>1
    <3>3. phase \in 2..6
      BY <2>1
    <3>4. arg = Used[phase].arg
      BY <1>9, <3>1, Zenon
    <3> QED
      BY <3>2, <3>3, <3>4 DEF Fits
  <2> QED
    BY <1>5, <2>1, <2>2, <2>3, LeftBehind
<1>10. CASE arg = "bastone parte_rovinata" /\ UseBastoneParteRovinata
  <2>1. /\ phase = 5 /\ phase' = phase + 1 /\ Held("bastone")
        /\ flags' = [flags EXCEPT !["libro"] = "FREE"]
    BY <1>10 DEF UseBastoneParteRovinata, Advance
  <2>2. "libro" \notin Bag
    BY <1>2, <1>o, <1>6, <2>1 DEF Places, Held
  <2>3. Bag' = Bag \ {"libro"}
    <3>1. flags' = [flags EXCEPT !["libro"] = "FREE"]
      BY <2>1
    <3> QED
      BY <1>t, <1>o, <3>1, BagLoses
  <2>4. Used[phase].held \subseteq Bag /\ Fits(arg)
    <3>1. Used[phase].arg = "bastone parte_rovinata" /\ Used[phase].held = {"bastone"}
      BY <2>1, UsedInPhase
    <3>2. \A x \in Used[phase].held : x \in Bag
      BY <1>o, <1>6, <2>1, <3>1
    <3>3. phase \in 2..6
      BY <2>1
    <3>4. arg = Used[phase].arg
      BY <1>10, <3>1, Zenon
    <3> QED
      BY <3>2, <3>3, <3>4 DEF Fits
  <2> QED
    BY <1>5, <2>1, <2>2, <2>3, <2>4, LeftBehind
<1>11. CASE arg = "libro" /\ UseLibroEnd
  <2>1. /\ phase = 6 /\ phase' = phase + 1 /\ Held("libro")
        /\ flags' = [flags EXCEPT !["libro"] = "FREE"]
    BY <1>11 DEF UseLibroEnd, Advance
  <2>2. Bag' = Bag \ {"libro"}
    <3>1. flags' = [flags EXCEPT !["libro"] = "FREE"]
      BY <2>1
    <3> QED
      BY <1>t, <1>o, <3>1, BagLoses
  <2>3. Used[phase].held \subseteq Bag /\ Fits(arg)
    <3>1. Used[phase].arg = "libro" /\ Used[phase].held = {"libro"}
      BY <2>1, UsedInPhase
    <3>2. \A x \in Used[phase].held : x \in Bag
      BY <1>o, <1>6, <2>1, <3>1
    <3>3. phase \in 2..6
      BY <2>1
    <3>4. arg = Used[phase].arg
      BY <1>11, <3>1, Zenon
    <3> QED
      BY <3>2, <3>3, <3>4 DEF Fits
  <2> QED
    BY <1>5, <2>1, <2>2, <2>3, LeftBehind
<1> QED
  BY <1>4, <1>7, <1>8, <1>9, <1>10, <1>11 DEF RUse

(* ... a look, or what tells nothing of the game.                          *)
LEMMA LookAgrees ==
  ASSUME TypeOK, Told => Agree, NEW arg, Look(arg), Told'
  PROVE  Agree'
<1>1. phase \in Int
  BY DEF TypeOK
<1>2. view' = Understand(LookReply(arg), arg) /\ Observe
  BY DEF Look, Tell
<1>3. \E p : LookReply(arg) = <<p, "look", arg>> \/ LookReply(arg) = <<p, "look", "wrong">>
  BY <1>1, LookIsLatest
<1>4. view' = view
  BY <1>2, <1>3, Unmoved
<1> QED
  BY <1>2, <1>4, ObserveAgrees

(* ... a new game.                                                         *)
LEMMA StartAgrees ==
  ASSUME RStart
  PROVE  Agree'
<1>1. /\ phase' = 1
      /\ flags' = [o \in Objects |-> CASE o = "libro" -> "ENIGMA_BLOCKED"
                                       [] o = "parte_rovinata" -> "LOCKED"
                                       [] OTHER -> "FREE"]
  BY DEF RStart, StartGame
<1>2. view' = [phase |-> 1, held |-> {}, solved |-> FALSE]
  BY DEF RStart
<1>3. view'.phase = 1 /\ view'.held = {} /\ view'.solved = FALSE
  BY <1>2
<1>4. \A o \in Objects : flags'[o] \in {"ENIGMA_BLOCKED", "LOCKED", "FREE"}
  BY <1>1
<1>5. Bag' = {}
  BY <1>4 DEF Bag
<1>6. flags'["libro"] = "ENIGMA_BLOCKED"
  BY <1>1 DEF Objects
<1> QED
  BY <1>1, <1>3, <1>5, <1>6 DEF Agree

(* The picture agrees with the game after every request.                   *)
LEMMA AgreeStep ==
  ASSUME TypeOK, OnStory, ViewTyped, Told => Agree, [RNext]_rvars, Told'
  PROVE  Agree'
<1>1. CASE RStart
  BY <1>1, StartAgrees
<1>2. CASE RData
  BY <1>2, ObserveAgrees DEF RData
<1>3. CASE \E arg \in Arguments : Look(arg)
  BY <1>3, LookAgrees
<1>4. CASE \E o \in Objects : RTake(o) \/ RDrop(o)
  BY <1>4, TakeAgrees, DropAgrees
<1>5. CASE \E right \in BOOLEAN : Solution(right)
  BY <1>5, SolutionAgrees
<1>6. CASE \E arg \in Uses : RUse(arg)
  BY <1>6, UseAgrees
<1>7. CASE Untold \/ UNCHANGED rvars
  <2>1. UNCHANGED <<selected_game, phase, flags, phaseLost>> /\ view' = view
    BY <1>7 DEF Untold, Tick, AdminUpdateTime, game, rvars, vars
  <2> QED
    BY <2>1, ObserveAgrees
<1> QED
  BY <1>1, <1>2, <1>3, <1>4, <1>5, <1>6, <1>7 DEF RNext

(* What is understood is a picture again.                                  *)
LEMMA UnderstoodTyped ==
  ASSUME ViewTyped, NEW at \in Int, NEW verb, NEW x, NEW arg, arg \in Objects \/ verb # "take"
  PROVE  Understand(<<at, verb, x>>, arg) \in [phase : Int, held : SUBSET Objects, solved : BOOLEAN]
<1> DEFINE u == Understand(<<at, verb, x>>, arg)
<1>1. /\ view.phase \in Int /\ view.held \subseteq Objects /\ view.solved \in BOOLEAN
      /\ view = [phase |-> view.phase, held |-> view.held, solved |-> view.solved]
  BY DEF ViewTyped
<1>2. \/ arg \in Objects
         /\ u = [view EXCEPT !.held = @ \cup {arg}, !.phase = IF @ = 1 /\ arg = "libro" THEN 2 ELSE @]
      \/ u = [view EXCEPT !.solved = TRUE]
      \/ u = [view EXCEPT !.held = @ \ {arg}]
      \/ u = [view EXCEPT !.phase = at + 1, !.held = @ \ Leaves[at]]
      \/ u = view
  BY DEF Understand
<1> SUFFICES u \in [phase : Int, held : SUBSET Objects, solved : BOOLEAN]
  OBVIOUS
<1> HIDE DEF u
<1>a. ASSUME NEW h \in SUBSET Objects, NEW p \in Int
      PROVE  [view EXCEPT !.held = h, !.phase = p] \in [phase : Int, held : SUBSET Objects, solved : BOOLEAN]
             /\ [view EXCEPT !.phase = p, !.held = h] \in [phase : Int, held : SUBSET Objects, solved : BOOLEAN]
  BY DEF ViewTyped
<1>3. CASE arg \in Objects
           /\ u = [view EXCEPT !.held = @ \cup {arg}, !.phase = IF @ = 1 /\ arg = "libro" THEN 2 ELSE @]
  <2>1. view.held \cup {arg} \in SUBSET Objects
    BY <1>1, <1>3
  <2>2. (IF view.phase = 1 /\ arg = "libro" THEN 2 ELSE view.phase) \in Int
    BY <1>1
  <2> QED
    BY <1>3, <1>a, <2>1, <2>2
<1>4. CASE u = [view EXCEPT !.solved = TRUE]
  BY <1>1, <1>4 DEF ViewTyped
<1>5. CASE u = [view EXCEPT !.held = @ \ {arg}]
  BY <1>1, <1>5 DEF ViewTyped
<1>6. CASE u = [view EXCEPT !.phase = at + 1, !.held = @ \ Leaves[at]]
  <2>1. view.held \ Leaves[at] \in SUBSET Objects
    BY <1>1
  <2>2. at + 1 \in Int
    OBVIOUS
  <2> QED
    BY <1>6, <1>a, <2>1, <2>2
<1>7. CASE u = view
  BY <1>7 DEF ViewTyped
<1> QED
  BY <1>2, <1>3, <1>4, <1>5, <1>6, <1>7

(* Every step keeps the types of the picture.                              *)
LEMMA ViewStep ==
  ASSUME phase \in Int, ViewTyped, [RNext]_rvars
  PROVE  ViewTyped'
<1>1. ASSUME NEW at \in Int, NEW verb, NEW x, NEW arg, arg \in Objects \/ verb # "take",
             view' = Understand(<<at, verb, x>>, arg)
      PROVE  ViewTyped'
  BY <1>1, UnderstoodTyped DEF ViewTyped
<1>o. "libro" \in Objects
  BY DEF Objects
<1>2. ASSUME NEW arg \in Arguments, Look(arg) PROVE ViewTyped'
  <2>1. view' = Understand(LookReply(arg), arg)
    BY <1>2 DEF Look, Tell
  <2>2. \E p \in Int : \E x : LookReply(arg) = <<p, "look", x>>
    BY LookIsLatest DEF Known
  <2> QED
    BY <1>1, <2>1, <2>2
<1>3. ASSUME NEW o \in Objects, RTake(o) PROVE ViewTyped'
  <2>1. view' = Understand(TakeReply(o), o)
    BY <1>3 DEF RTake, Tell
  <2>2. \E p \in Int : \E verb, x : TakeReply(o) = <<p, verb, x>>
    BY DEF TakeReply, Question
  <2> QED
    BY <1>1, <2>1, <2>2
<1>4. ASSUME NEW o \in Objects, RDrop(o) PROVE ViewTyped'
  <2>1. view' = Understand(DropReply(o), o)
    BY <1>4 DEF RDrop, Tell
  <2>2. \E x : DropReply(o) = <<0, "drop", x>>
    BY DEF DropReply
  <2> QED
    BY <1>1, <2>1, <2>2
<1>5. ASSUME NEW right \in BOOLEAN, Solution(right) PROVE ViewTyped'
  <2>1. view' = Understand(SolutionReply(right), "libro")
    BY <1>5 DEF Solution, Tell
  <2>2. \E p \in Int : \E verb, x : SolutionReply(right) = <<p, verb, x>>
    BY DEF SolutionReply, Right
  <2> QED
    BY <1>1, <1>o, <2>1, <2>2
<1>6. ASSUME NEW arg \in Uses, RUse(arg) PROVE ViewTyped'
  <2>1. view' = Understand(UseReply(arg), arg)
    BY <1>6 DEF RUse, Tell
  <2>2. \E p \in Int : \E x : UseReply(arg) = <<p, "use", x>>
    BY DEF UseReply
  <2> QED
    BY <1>1, <2>1, <2>2
<1>7. CASE RStart
  <2>1. view' = [phase |-> 1, held |-> {}, solved |-> FALSE]
    BY <1>7 DEF RStart
  <2> QED
    BY <2>1 DEF ViewTyped
<1>8. CASE RData \/ Untold \/ UNCHANGED rvars
  BY <1>8 DEF RData, Untold, rvars, ViewTyped
<1> QED
  BY <1>2, <1>3, <1>4, <1>5, <1>6, <1>7, <1>8 DEF RNext

(* Whatever the player asks and in whatever order, the deadline moved or   *)
(* not: who believes every message knows the phase, what is held, as objs  *)
(* lists it, and whether the riddle is solved.                             *)
THEOREM PlayerIsRight == RSpec => []ViewAgrees
<1> DEFINE Knows == Told => Agree
<1>1. RInit => Knows /\ ViewTyped
  <2>1. RInit => ~Told
    BY DEF RInit, Init, Told
  <2>2. RInit => ViewTyped
    BY DEF RInit, ViewTyped
  <2> QED
    BY <2>1, <2>2
<1>2. TypeOK /\ OnStory /\ ViewTyped /\ Knows /\ [RNext]_rvars => Knows'
  BY AgreeStep
<1>3. TypeOK /\ ViewTyped /\ [RNext]_rvars => ViewTyped'
  BY ViewStep DEF TypeOK
<1>4. TypeOK /\ OnStory /\ Knows => ViewAgrees
  BY Agreeing
<1> HIDE DEF Knows
<1>5. RSpec => []TypeOK /\ []OnStory
  BY RepliesPlayGame1, TypeCorrect, AlwaysOnStory, PTL
<1> QED
  BY <1>1, <1>2, <1>3, <1>4, <1>5, PTL DEF RSpec

=============================================================================
