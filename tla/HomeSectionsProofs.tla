------------------------- MODULE HomeSectionsProofs -------------------------
(***************************************************************************)
(* Proofs about HomeSections, for sections, samples and fixtures of any    *)
(* size and any number of commands.                                        *)
(***************************************************************************)
EXTENDS HomeSections, FiniteSetTheorems, WellFoundedInduction, TLAPS

-----------------------------------------------------------------------------
\* Numbers of slots.

\* The slots of the same kind before the k-th.
Before(slots, k) == {j \in 1..(k - 1) : slots[j] \in Albums <=> slots[k] \in Albums}

\* They are finitely many.
LEMMA BeforeIsFinite ==
  ASSUME NEW slots \in Fixtures \cup Samples, NEW k \in DOMAIN slots
  PROVE  /\ IsFiniteSet(Before(slots, k)) /\ Numbered(slots, k) = Cardinality(Before(slots, k))
         /\ Numbered(slots, k) \in Nat /\ DOMAIN slots = 1..Len(slots) /\ k \in Nat
<1>1. slots \in Seq(Slots) /\ DOMAIN slots = 1..Len(slots) /\ Len(slots) \in Nat /\ k \in Nat
  BY SectionAssumption
<1>2. IsFiniteSet(1..(k - 1)) /\ Before(slots, k) \in SUBSET (1..(k - 1))
  <2>1. 1 \in Int /\ k - 1 \in Int
    BY <1>1
  <2>2. IsFiniteSet(1..(k - 1))
    BY <2>1, FS_Interval
  <2> QED
    BY <2>2 DEF Before
<1>3. IsFiniteSet(Before(slots, k))
  BY <1>2, FS_Subset
<1>4. Numbered(slots, k) = Cardinality(Before(slots, k))
  BY DEF Numbered, Before
<1> QED
  BY <1>1, <1>3, <1>4, FS_CardinalityType

\* Of two slots of one kind the later has the greater number.
LEMMA NumberedIncreases ==
  ASSUME NEW slots \in Fixtures \cup Samples, NEW j \in DOMAIN slots, NEW k \in DOMAIN slots,
         j < k, slots[j] \in Albums <=> slots[k] \in Albums
  PROVE  Numbered(slots, j) < Numbered(slots, k)
<1>1. /\ IsFiniteSet(Before(slots, j)) /\ IsFiniteSet(Before(slots, k)) /\ j \in Nat /\ k \in Nat
      /\ Numbered(slots, j) = Cardinality(Before(slots, j)) /\ Numbered(slots, j) \in Nat
      /\ Numbered(slots, k) = Cardinality(Before(slots, k)) /\ Numbered(slots, k) \in Nat
      /\ DOMAIN slots = 1..Len(slots) /\ Len(slots) \in Nat
  BY BeforeIsFinite, SectionAssumption
<1>2. j \notin Before(slots, j) /\ Before(slots, j) \cup {j} \in SUBSET Before(slots, k)
  BY <1>1 DEF Before
<1>3. Cardinality(Before(slots, j) \cup {j}) = Cardinality(Before(slots, j)) + 1
  BY <1>1, <1>2, FS_AddElement
<1>4. Cardinality(Before(slots, j) \cup {j}) <= Cardinality(Before(slots, k))
  BY <1>1, <1>2, FS_Subset
<1>5. Cardinality(Before(slots, j)) + 1 <= Cardinality(Before(slots, k))
  BY <1>3, <1>4
<1> QED
  BY <1>1, <1>5

\* A slot of a list has a place in it.
LEMMA PlaceType ==
  ASSUME NEW slots \in Fixtures \cup Samples, NEW s \in Members(slots)
  PROVE  /\ Place(slots, s) \in Nat /\ s \in Slots
         /\ \E k \in DOMAIN slots : slots[k] = s /\ Place(slots, s) = Numbered(slots, k)
<1>1. PICK i \in DOMAIN slots : slots[i] = s
  BY DEF Members
<1> DEFINE k == CHOOSE k \in DOMAIN slots : slots[k] = s
<1>2. k \in DOMAIN slots /\ slots[k] = s
  BY <1>1
<1>3. Place(slots, s) = Numbered(slots, k)
  BY DEF Place
<1>4. s \in Slots
  BY <1>2, SectionAssumption
<1> HIDE DEF k
<1> QED
  BY <1>2, <1>3, <1>4, BeforeIsFinite

\* No two slots of one table have the same place.
LEMMA PlacesDiffer ==
  ASSUME NEW slots \in Fixtures \cup Samples, NEW s \in Members(slots), NEW t \in Members(slots),
         s \in Albums <=> t \in Albums, Place(slots, s) = Place(slots, t)
  PROVE  s = t
<1>1. PICK j \in DOMAIN slots : slots[j] = s /\ Place(slots, s) = Numbered(slots, j)
  BY PlaceType
<1>2. PICK k \in DOMAIN slots : slots[k] = t /\ Place(slots, t) = Numbered(slots, k)
  BY PlaceType
<1>3. j \in Nat /\ k \in Nat /\ Numbered(slots, j) \in Nat /\ Numbered(slots, k) \in Nat
  BY BeforeIsFinite
<1>4. ~(j < k)
  <2> SUFFICES ASSUME j < k PROVE FALSE
    OBVIOUS
  <2>1. Numbered(slots, j) < Numbered(slots, k)
    BY <1>1, <1>2, NumberedIncreases
  <2>2. Numbered(slots, j) = Numbered(slots, k)
    BY <1>1, <1>2
  <2> QED
    BY <1>3, <2>1, <2>2
<1>5. ~(k < j)
  <2> SUFFICES ASSUME k < j PROVE FALSE
    OBVIOUS
  <2>1. Numbered(slots, k) < Numbered(slots, j)
    BY <1>1, <1>2, NumberedIncreases
  <2>2. Numbered(slots, j) = Numbered(slots, k)
    BY <1>1, <1>2
  <2> QED
    BY <1>3, <2>1, <2>2
<1> QED
  BY <1>1, <1>2, <1>3, <1>4, <1>5

\* The table that links a slot.
TableOf(s) == IF s \in Albums THEN Albums ELSE Items

\* Places count from 0: they are less than the number of slots of that table.
LEMMA PlaceBound ==
  ASSUME NEW slots \in Fixtures \cup Samples, NEW s \in Members(slots)
  PROVE  Place(slots, s) < Cardinality(Members(slots) \cap TableOf(s))
<1> DEFINE there == Members(slots) \cap TableOf(s)
<1>1. PICK k \in DOMAIN slots : slots[k] = s /\ Place(slots, s) = Numbered(slots, k)
  BY PlaceType
<1> DEFINE upTo == Before(slots, k) \cup {k}
           at == [j \in upTo |-> slots[j]]
<1>2. /\ IsFiniteSet(Before(slots, k)) /\ k \in Nat /\ DOMAIN slots = 1..Len(slots) /\ Len(slots) \in Nat
      /\ Numbered(slots, k) = Cardinality(Before(slots, k)) /\ Numbered(slots, k) \in Nat
  BY BeforeIsFinite, SectionAssumption
<1>3. k \notin Before(slots, k) /\ upTo \subseteq DOMAIN slots
  BY <1>2 DEF Before
<1>4. Cardinality(upTo) = Cardinality(Before(slots, k)) + 1
  BY <1>2, <1>3, FS_AddElement
<1>5. \A j \in upTo : slots[j] \in there
  <2> SUFFICES ASSUME NEW j \in upTo PROVE slots[j] \in there
    OBVIOUS
  <2>1. slots[j] \in Slots /\ slots[j] \in Members(slots)
    BY <1>3, SectionAssumption DEF Members
  <2>2. slots[j] \in Albums <=> s \in Albums
    BY <1>1 DEF Before
  <2> QED
    BY <2>1, <2>2 DEF TableOf, Slots
<1>6. at \in Injection(upTo, there)
  <2>1. at \in [upTo -> there]
    BY <1>5
  <2>2. \A i, j \in upTo : at[i] = at[j] => i = j
    BY <1>3, SectionAssumption
  <2> QED
    BY <2>1, <2>2 DEF Injection, IsInjective
<1>7. IsFiniteSet(there) /\ Cardinality(there) \in Nat
  <2>1. there \in SUBSET Slots
    BY PlaceType
  <2> QED
    BY <2>1, FS_Subset, FS_CardinalityType, SectionAssumption
<1>8. Cardinality(upTo) <= Cardinality(there)
  BY <1>6, <1>7, FS_Injection
<1> QED
  BY <1>1, <1>2, <1>4, <1>7, <1>8

-----------------------------------------------------------------------------
\* A finite set of numbers that is not empty has a greatest.
LEMMA GreatestExists ==
  ASSUME NEW T \in SUBSET Nat, IsFiniteSet(T), T # {}
  PROVE  \E n \in T : \A m \in T : m <= n
<1> DEFINE HasGreatest(U) == \E n \in U : \A m \in U : m <= n
           Bad == {U \in SUBSET T : U # {} /\ ~HasGreatest(U)}
<1> SUFFICES ASSUME Bad # {} PROVE FALSE
  OBVIOUS
<1>1. FiniteSubsetsOf(T) = SUBSET T
  BY FS_FiniteSubsetsOfFinite
<1>2. PICK U \in Bad : \A V \in Bad : ~(<<V, U>> \in StrictSubsetOrdering(T))
  <2>1. Bad \subseteq FiniteSubsetsOf(T)
    BY <1>1
  <2>2. IsWellFoundedOn(StrictSubsetOrdering(T), FiniteSubsetsOf(T))
    BY FS_StrictSubsetOrderingWellFounded
  <2> HIDE DEF Bad
  <2> QED
    BY <2>1, <2>2, WFMin
<1>3. PICK x \in U : TRUE
  OBVIOUS
<1> DEFINE V == U \ {x}
<1>4. V \in SUBSET T /\ U \in SUBSET T /\ V # U /\ V \subseteq U
  BY <1>3
<1>5. V \notin Bad
  BY <1>1, <1>2, <1>4 DEF StrictSubsetOrdering
<1>6. CASE V = {}
  BY <1>3, <1>6
<1>7. CASE V # {}
  <2>1. PICK n \in V : \A m \in V : m <= n
    BY <1>4, <1>5, <1>7
  <2>2. CASE x <= n
    BY <1>3, <2>1, <2>2
  <2>3. CASE ~(x <= n)
    <3>1. \A m \in U : m <= x
      BY <1>3, <2>1, <2>3
    <3> QED
      BY <1>3, <3>1
  <2> QED
    BY <2>2, <2>3
<1> QED
  BY <1>6, <1>7

\* New orders come after all that are there, and there are at least as many.
LEMMA NextOrderIsNext ==
  ASSUME order \in [Slots -> Nat \cup {Unlinked}], NEW table \in SUBSET Slots
  PROVE  /\ NextOrder(table) \in Nat
         /\ \A s \in Linked(table) : order[s] < NextOrder(table)
<1> DEFINE orders == {order[s] : s \in Linked(table)}
<1>1. CASE Linked(table) = {}
  BY <1>1 DEF NextOrder
<1>2. CASE Linked(table) # {}
  <2>1. orders \in SUBSET Nat /\ orders # {}
    BY <1>2 DEF Linked
  <2>2. IsFiniteSet(orders)
    <3>1. Linked(table) \in SUBSET Slots
      BY DEF Linked
    <3>2. IsFiniteSet(Linked(table))
      BY <3>1, FS_Subset, SectionAssumption
    <3> DEFINE f == [s \in Linked(table) |-> order[s]]
    <3>3. f \in Surjection(Linked(table), orders)
      BY DEF Surjection
    <3> QED
      BY <3>2, <3>3, FS_Surjection
  <2>3. \E n \in orders : \A s \in Linked(table) : order[s] <= n
    BY <2>1, <2>2, GreatestExists
  <2> DEFINE n == CHOOSE n \in orders : \A s \in Linked(table) : order[s] <= n
  <2>4. n \in orders /\ \A s \in Linked(table) : order[s] <= n
    BY <2>3
  <2>5. NextOrder(table) = 1 + n
    BY <1>2 DEF NextOrder
  <2> HIDE DEF n
  <2>6. \A s \in Linked(table) : order[s] \in Nat
    BY <2>1
  <2> QED
    BY <2>1, <2>4, <2>5, <2>6
<1> QED
  BY <1>1, <1>2

-----------------------------------------------------------------------------
\* The invariant of all behaviours.

\* A process writes slots of the kind it has chosen.
CommandsChoose ==
    \A p \in Commands :
        /\ command[p].pc = "seed" => command[p].slots \in Fixtures
        /\ command[p].pc \in {"items", "albums", "link"} => command[p].slots \in Samples

\* The fixture that was committed last is in its places.
SeedInPlace ==
    seeded # None => \A s \in Members(seeded) : order[s] = Place(seeded, s)

\* The samples that were committed are linked, each row by itself or by another
\* sample that shares it.
SamplesInPlace == \A sample \in linked : Members(sample) \subseteq Linked(Slots)

Inv == TypeOK /\ CommandsChoose /\ SeedInPlace /\ SamplesInPlace

\* The links after a seed.
LEMMA SeededOrders ==
  ASSUME Inv, NEW p \in Commands, CommitSeed(p)
  PROVE  LET f == command[p].slots
         IN  /\ f \in Fixtures /\ seeded' = f
             /\ order' \in [Slots -> Nat \cup {Unlinked}]
             /\ \A s \in Members(f) : order'[s] = Place(f, s)
             /\ \A s \in Slots \ Members(f) : order'[s] = order[s]
<1> DEFINE f == command[p].slots
<1>1. f \in Fixtures
  BY DEF Inv, CommandsChoose, CommitSeed
<1>2. \A s \in Members(f) : s \in Slots /\ Place(f, s) \in Nat
  BY <1>1, PlaceType
<1>3. order' = [s \in Slots |-> IF s \in Members(f) THEN Place(f, s) ELSE order[s]] /\ seeded' = f
  BY DEF CommitSeed
<1> HIDE DEF f
<1>4. order' \in [Slots -> Nat \cup {Unlinked}]
  BY <1>2, <1>3 DEF Inv, TypeOK
<1> QED
  BY <1>1, <1>2, <1>3, <1>4 DEF f

\* The links after a sample is appended.
LEMMA LinkedOrders ==
  ASSUME Inv, NEW p \in Commands, CommitLink(p)
  PROVE  LET sample == command[p].slots
         IN  /\ sample \in Samples
             /\ order' \in [Slots -> Nat \cup {Unlinked}]
             /\ \A s \in Members(sample) : s \in Slots /\ Appended(p, s) \in Nat
             /\ \A s \in Slots : order'[s] = IF Inserted(p, s) THEN Appended(p, s) ELSE order[s]
<1> DEFINE sample == command[p].slots
<1>1. sample \in Samples
  BY DEF Inv, CommandsChoose, CommitLink
<1>2. command[p].itemBase \in Nat /\ command[p].albumBase \in Nat
  BY DEF Inv, TypeOK, Command
<1>3. ASSUME NEW s \in Members(sample) PROVE s \in Slots /\ Appended(p, s) \in Nat
  <2>1. s \in Slots /\ Place(sample, s) \in Nat
    BY <1>1, PlaceType
  <2> QED
    BY <1>2, <2>1 DEF Appended
<1>4. order' = [s \in Slots |-> IF Inserted(p, s) THEN Appended(p, s) ELSE order[s]]
  BY DEF CommitLink
<1>5. order' \in [Slots -> Nat \cup {Unlinked}]
  BY <1>3, <1>4 DEF Inv, TypeOK, Inserted
<1> QED
  BY <1>1, <1>3, <1>4, <1>5

\* It holds at first.
LEMMA InitInv == Init => Inv
<1> SUFFICES ASSUME Init PROVE Inv
  OBVIOUS
<1>1. Nothing \in [Slots -> Nat \cup {Unlinked}] /\ Idle \in Command /\ Idle.pc = "idle"
  BY DEF Nothing, Idle, Command
<1>2. TypeOK
  BY <1>1 DEF Init, TypeOK
<1>3. CommandsChoose
  BY <1>1 DEF Init, CommandsChoose
<1>4. SeedInPlace
  BY DEF Init, SeedInPlace
<1>5. SamplesInPlace
  BY DEF Init, SamplesInPlace
<1> QED
  BY <1>2, <1>3, <1>4, <1>5 DEF Inv

\* A process that begins, and chooses its slots, reads a base or fails.
LEMMA BeginInv ==
  ASSUME Inv, NEW p \in Commands, NEW c \in Command, command' = [command EXCEPT ![p] = c],
         c.pc = "seed" => c.slots \in Fixtures, c.pc \in {"items", "albums", "link"} => c.slots \in Samples,
         UNCHANGED <<section, order, reader, seeded, linked>>, orderly' \in BOOLEAN
  PROVE  Inv'
<1>1. TypeOK'
  BY DEF Inv, TypeOK, Nothing
<1>2. CommandsChoose'
  BY DEF Inv, TypeOK, CommandsChoose
<1>3. SeedInPlace' /\ SamplesInPlace'
  BY DEF Inv, SeedInPlace, SamplesInPlace, Linked
<1> QED
  BY <1>1, <1>2, <1>3 DEF Inv

\* One that ends with new links.
LEMMA CommitInv ==
  ASSUME Inv, order' \in [Slots -> Nat \cup {Unlinked}], section' = TRUE, seeded' \in Fixtures \cup {None},
         \A q \in Commands : command'[q] \in Command /\ (command'[q] = Idle \/
             (command'[q].pc = command[q].pc /\ command'[q].slots = command[q].slots)),
         DOMAIN command' = Commands, command' = [q \in Commands |-> command'[q]],
         linked' \subseteq Samples, SeedInPlace', SamplesInPlace', UNCHANGED reader, orderly' \in BOOLEAN
  PROVE  Inv'
<1>1. command' \in [Commands -> Command]
  OBVIOUS
<1>2. CommandsChoose'
  BY DEF Inv, CommandsChoose, Idle
<1> QED
  BY <1>1, <1>2 DEF Inv, TypeOK

\* Every step keeps it.
LEMMA StepInv == Inv /\ [Next]_vars => Inv'
<1> SUFFICES ASSUME Inv, [Next]_vars PROVE Inv'
  OBVIOUS
<1> USE SectionAssumption
<1>0. command \in [Commands -> Command] /\ Idle \in Command
  BY DEF Inv, TypeOK, Idle, Command
<1>1. ASSUME NEW p \in Commands, CommandStep(p), orderly' \in BOOLEAN PROVE Inv'
  <2>1. ASSUME NEW f \in Fixtures, BeginSeed(p, f) PROVE Inv'
    <3> DEFINE c == [Idle EXCEPT !.pc = "seed", !.slots = f, !.creates = ~section]
    <3>1. c \in Command /\ c.pc = "seed" /\ c.slots = f
      BY DEF Idle, Command
    <3> HIDE DEF c
    <3> QED
      BY <1>1, <2>1, <3>1, BeginInv DEF BeginSeed, c
  <2>2. ASSUME NEW sample \in Samples, BeginLink(p, sample) PROVE Inv'
    <3> DEFINE c == [Idle EXCEPT !.pc = "items", !.slots = sample, !.creates = ~section]
    <3>1. c \in Command /\ c.pc = "items" /\ c.slots = sample
      BY DEF Idle, Command, Inv, TypeOK
    <3> HIDE DEF c
    <3> QED
      BY <1>1, <2>2, <3>1, BeginInv DEF BeginLink, c
  <2>3. CASE CommitSeed(p)
    <3>1. SeedInPlace'
      BY <2>3, SeededOrders DEF SeedInPlace
    <3> DEFINE stale(q) == command[q].pc = "seed" /\ Members(command[q].slots) \cap Members(command[p].slots) # {}
    <3>2. /\ command' = [q \in Commands |->
                           IF q = p THEN Idle
                           ELSE IF stale(q) THEN [command[q] EXCEPT !.stale = TRUE] ELSE command[q]]
          /\ section' = TRUE /\ UNCHANGED reader
      BY <2>3 DEF CommitSeed
    <3>3. ASSUME NEW q \in Commands
          PROVE  /\ command'[q] \in Command
                 /\ \/ command'[q] = Idle
                    \/ command'[q].pc = command[q].pc /\ command'[q].slots = command[q].slots
      <4>1. command'[q] = IF q = p THEN Idle
                          ELSE IF stale(q) THEN [command[q] EXCEPT !.stale = TRUE] ELSE command[q]
        BY <3>2
      <4> HIDE DEF stale
      <4> QED
        BY <1>0, <4>1 DEF Command
    <3>4. SamplesInPlace'
      <4>1. Linked(Slots) \subseteq Linked(Slots)'
        <5> SUFFICES ASSUME NEW s \in Slots, order[s] # Unlinked PROVE order'[s] # Unlinked
          BY DEF Linked
        <5>1. CASE s \in Members(command[p].slots)
          BY <2>3, <5>1, SeededOrders, PlaceType
        <5>2. CASE s \notin Members(command[p].slots)
          BY <2>3, <5>2, SeededOrders
        <5> QED
          BY <5>1, <5>2
      <4> QED
        BY <2>3, <4>1 DEF CommitSeed, Inv, SamplesInPlace
    <3> QED
      BY <1>1, <2>3, <3>1, <3>2, <3>3, <3>4, SeededOrders, CommitInv DEF CommitSeed, Inv, TypeOK
  <2>4. CASE CommitLink(p)
    <3>1. SeedInPlace'
      <4> SUFFICES ASSUME seeded' # None, NEW s \in Members(seeded) PROVE order'[s] = Place(seeded, s)
        BY <2>4 DEF CommitLink, SeedInPlace
      <4>1. seeded \in Fixtures
        BY <2>4 DEF CommitLink, Inv, TypeOK
      <4>2. s \in Slots /\ s \notin Members(command[p].slots)
        BY <2>4, <4>1, LinkedOrders, PlaceType
      <4> QED
        BY <2>4, <4>1, <4>2, LinkedOrders DEF Inserted, Inv, SeedInPlace, CommitLink
    <3>2. SamplesInPlace'
      <4>1. \A s \in Slots : /\ order[s] # Unlinked => order'[s] # Unlinked
                             /\ s \in Members(command[p].slots) => order'[s] # Unlinked
        BY <2>4, LinkedOrders DEF Inserted
      <4>2. Members(command[p].slots) \subseteq Linked(Slots)'
        BY <2>4, <4>1, LinkedOrders DEF Linked
      <4>3. Linked(Slots) \subseteq Linked(Slots)'
        BY <4>1 DEF Linked
      <4> QED
        BY <2>4, <4>2, <4>3 DEF CommitLink, Inv, SamplesInPlace
    <3> QED
      BY <1>0, <1>1, <2>4, <3>1, <3>2, LinkedOrders, CommitInv DEF CommitLink, Inv, TypeOK
  <2>5. CASE Fail(p)
    BY <1>0, <1>1, <2>5, BeginInv DEF Fail, Idle
  <2>6. CASE ReadItemBase(p)
    <3> DEFINE c == [command[p] EXCEPT !.pc = "albums", !.itemBase = NextOrder(Items)]
    <3>1. NextOrder(Items) \in Nat
      BY NextOrderIsNext DEF Slots, Inv, TypeOK
    <3>2. c \in Command /\ c.pc = "albums" /\ c.slots \in Samples
      BY <1>0, <2>6, <3>1 DEF Command, Inv, CommandsChoose, ReadItemBase
    <3>3. command' = [command EXCEPT ![p] = c] /\ UNCHANGED <<section, order, reader, seeded, linked>>
      BY <1>0, <2>6 DEF ReadItemBase
    <3> HIDE DEF c
    <3> QED
      BY <1>1, <3>2, <3>3, BeginInv
  <2>7. CASE ReadAlbumBase(p)
    <3> DEFINE c == [command[p] EXCEPT !.pc = "link", !.albumBase = NextOrder(Albums)]
    <3>1. NextOrder(Albums) \in Nat
      BY NextOrderIsNext DEF Slots, Inv, TypeOK
    <3>2. c \in Command /\ c.pc = "link" /\ c.slots \in Samples
      BY <1>0, <2>7, <3>1 DEF Command, Inv, CommandsChoose, ReadAlbumBase
    <3>3. command' = [command EXCEPT ![p] = c] /\ UNCHANGED <<section, order, reader, seeded, linked>>
      BY <1>0, <2>7 DEF ReadAlbumBase
    <3> HIDE DEF c
    <3> QED
      BY <1>1, <3>2, <3>3, BeginInv
  <2> QED
    BY <1>1, <2>1, <2>2, <2>3, <2>4, <2>5, <2>6, <2>7 DEF CommandStep
<1>2. ASSUME ReadItems \/ ReadAlbums \/ Reply, orderly' \in BOOLEAN PROVE Inv'
  BY <1>2 DEF ReadItems, ReadAlbums, Reply, Inv, TypeOK, CommandsChoose, SeedInPlace, SamplesInPlace, Linked, Nothing
<1>3. CASE UNCHANGED vars
  BY <1>3 DEF vars, Inv, TypeOK, CommandsChoose, SeedInPlace, SamplesInPlace, Linked, Nothing
<1> QED
  BY <1>1, <1>2, <1>3 DEF Next, Step, Inv, TypeOK

\* So it holds of all reachable states.
THEOREM Invariance == Spec => []Inv
  BY InitInv, StepInv, PTL DEF Spec

\* The variables have their types: every number given to a slot is one.
THEOREM TypeCorrect == Spec => []TypeOK
  BY Invariance, PTL DEF Inv

\* A second seed of the same fixture changes no link, whatever has been linked or
\* is being linked.
THEOREM SeedAgain == Spec => SeedIsIdempotent
<1>1. Inv /\ [Next]_vars =>
        [\A p \in Commands : CommitSeed(p) /\ seeded = command[p].slots => order' = order]_vars
  <2> SUFFICES ASSUME Inv, NEW p \in Commands, CommitSeed(p), seeded = command[p].slots
               PROVE  order' = order
    OBVIOUS
  <2>1. \A s \in Slots : order'[s] = order[s]
    BY SeededOrders, SectionAssumption DEF Inv, SeedInPlace
  <2>2. order = [s \in Slots |-> order[s]] /\ order' = [s \in Slots |-> order'[s]]
    BY SeededOrders DEF Inv, TypeOK
  <2> QED
    BY <2>1, <2>2
<1> QED
  BY <1>1, Invariance, PTL DEF Spec, SeedIsIdempotent

\* A sample that was committed is linked ever after, so committing it again
\* changes no link.
THEOREM RelinkAgain == Spec => RelinkIsNoOp
<1>1. Inv /\ [Next]_vars =>
        [\A p \in Commands : CommitLink(p) /\ command[p].slots \in linked
             => order' = order]_vars
  <2> SUFFICES ASSUME Inv, NEW p \in Commands, CommitLink(p), command[p].slots \in linked
               PROVE  order' = order
    OBVIOUS
  <2>0. Members(command[p].slots) \subseteq Linked(Slots)
    BY DEF Inv, SamplesInPlace
  <2>1. \A s \in Slots : order'[s] = order[s]
    BY <2>0, LinkedOrders DEF Inserted, Linked
  <2>2. order = [s \in Slots |-> order[s]] /\ order' = [s \in Slots |-> order'[s]]
    BY LinkedOrders DEF Inv, TypeOK
  <2> QED
    BY <2>1, <2>2
<1> QED
  BY <1>1, Invariance, PTL DEF Spec, RelinkIsNoOp

-----------------------------------------------------------------------------
\* Behaviours in which seed came first and one command ran at a time, with
\* fixtures that list the same slots, in whatever order.

OneSetOfSlots == \A f, g \in Fixtures : Members(f) = Members(g)

Curated == UNION {Members(f) : f \in Fixtures}

\* The orders below Room are for the curated slots of the table.
Room(s) == Cardinality(Curated \cap TableOf(s))

SameTable(s, t) == s \in Albums <=> t \in Albums

SeedComesFirst == seeded = None => Linked(Slots) = {}

CuratedThenBulk ==
    \A s \in Linked(Slots) : \/ s \in Curated /\ order[s] < Room(s)
                             \/ s \in Bulk /\ Room(s) <= order[s]

NoTies == \A s, t \in Linked(Slots) : SameTable(s, t) /\ order[s] = order[t] => s = t

\* The bases a command has read are still behind everything.
Base(p, s) == IF s \in Items THEN command[p].itemBase ELSE command[p].albumBase

HasBase(p, s) == command[p].pc = "link" \/ (command[p].pc = "albums" /\ s \in Items)

LinksAppend ==
    \A p \in Commands : \A s \in Slots :
        HasBase(p, s) => /\ Room(s) <= Base(p, s)
                         /\ s \in Linked(Slots) => order[s] < Base(p, s)

\* What a reader has of one table comes from one statement.
ReadsAreUntied ==
    \A s, t \in Slots :
        SameTable(s, t) /\ reader.read[s] = reader.read[t] /\ reader.read[s] # Unlinked => s = t

OrderlyInv ==
    orderly => /\ InTurn
               /\ SeedComesFirst
               /\ CuratedThenBulk
               /\ NoTies
               /\ LinksAppend
               /\ ReadsAreUntied

\* Room is a number, one for each table.
LEMMA RoomType ==
  ASSUME NEW s
  PROVE  /\ Room(s) \in Nat
         /\ \A t : SameTable(s, t) => Room(s) = Room(t)
         /\ IsFiniteSet(Curated \cap TableOf(s))
<1>1. Curated \cap TableOf(s) \in SUBSET Slots
  BY DEF TableOf, Slots
<1>2. IsFiniteSet(Curated \cap TableOf(s)) /\ Cardinality(Curated \cap TableOf(s)) \in Nat
  BY <1>1, FS_Subset, FS_CardinalityType, SectionAssumption
<1> QED
  BY <1>2 DEF Room, SameTable, TableOf

\* Curated slots and bulk slots are different.
LEMMA CuratedIsNotBulk == Curated \cap Bulk = {} /\ Curated \subseteq Slots /\ Bulk \subseteq Slots
  BY SectionAssumption, PlaceType DEF Curated, Bulk

\* A command that works, works alone.
LEMMA Alone ==
  ASSUME Inv, OrderlyInv, orderly, NEW p \in Commands, command[p].pc # "idle", NEW q \in Commands, q # p
  PROVE  command[q].pc = "idle"
  BY DEF OrderlyInv, InTurn

\* Before a sample is linked, all curated slots are, and new orders are behind them.
LEMMA NextOrderHasRoom ==
  ASSUME Inv, OrderlyInv, orderly, OneSetOfSlots, seeded # None, NEW s \in Slots
  PROVE  Room(s) <= NextOrder(TableOf(s))
<1> DEFINE there == Curated \cap TableOf(s)
           n == NextOrder(TableOf(s))
           f == [t \in there |-> order[t]]
<1>1. TableOf(s) \in SUBSET Slots /\ there \subseteq Slots
  BY DEF TableOf, Slots
<1>2. n \in Nat /\ \A t \in Linked(TableOf(s)) : order[t] < n
  BY <1>1, NextOrderIsNext DEF Inv, TypeOK
<1>3. \A t \in Curated : order[t] \in Nat
  <2> SUFFICES ASSUME NEW t \in Curated PROVE order[t] \in Nat
    OBVIOUS
  <2>1. seeded \in Fixtures /\ t \in Members(seeded)
    BY DEF Inv, TypeOK, Curated, OneSetOfSlots
  <2> QED
    BY <2>1, PlaceType DEF Inv, SeedInPlace
<1>4. \A t \in there : t \in Linked(TableOf(s)) /\ t \in Linked(Slots)
  BY <1>1, <1>3, SectionAssumption DEF Linked
<1>5. \A t \in there : order[t] \in 0..(n - 1)
  BY <1>2, <1>3, <1>4
<1>6. f \in Injection(there, 0..(n - 1))
  <2>1. \A t, u \in there : f[t] = f[u] => t = u
    <3> SUFFICES ASSUME NEW t \in there, NEW u \in there, order[t] = order[u] PROVE t = u
      OBVIOUS
    <3>1. SameTable(t, u)
      BY SectionAssumption DEF SameTable, TableOf
    <3> QED
      BY <1>4, <3>1 DEF OrderlyInv, NoTies
  <2> QED
    BY <1>5, <2>1 DEF Injection, IsInjective
<1>7. IsFiniteSet(0..(n - 1)) /\ Cardinality(0..(n - 1)) = n
  <2>1. 0 \in Int /\ n - 1 \in Int
    BY <1>2
  <2>2. Cardinality(0..(n - 1)) = IF 0 > n - 1 THEN 0 ELSE n - 1 - 0 + 1
    BY <2>1, FS_Interval
  <2> QED
    BY <1>2, <2>1, <2>2, FS_Interval
<1>8. Cardinality(there) <= Cardinality(0..(n - 1))
  BY <1>6, <1>7, FS_Injection
<1> QED
  BY <1>7, <1>8 DEF Room

\* The invariant holds at first.
LEMMA OrderlyInit == Init => OrderlyInv
<1> SUFFICES ASSUME Init PROVE OrderlyInv
  OBVIOUS
<1>1. Linked(Slots) = {} /\ \A p \in Commands : command[p].pc = "idle"
  BY DEF Init, Nothing, Linked, Idle
<1>2. \A s \in Slots : reader.read[s] = Unlinked
  BY DEF Init, Nothing
<1> QED
  BY <1>1, <1>2 DEF OrderlyInv, InTurn, SeedComesFirst, CuratedThenBulk, NoTies, LinksAppend, HasBase, ReadsAreUntied

\* A process reads the base of one table: it is behind all links.
LEMMA BaseRead ==
  ASSUME Inv, OrderlyInv, OneSetOfSlots, orderly, InTurn',
         NEW p \in Commands, ReadItemBase(p) \/ ReadAlbumBase(p)
  PROVE  LinksAppend'
<1> USE SectionAssumption
<1>0. command \in [Commands -> Command] /\ UNCHANGED <<order, seeded>>
  BY DEF Inv, TypeOK, ReadItemBase, ReadAlbumBase
<1>1. seeded # None
  <2>1. command'[p].pc \in {"albums", "link"}
    BY <1>0 DEF ReadItemBase, ReadAlbumBase, Command
  <2> QED
    BY <1>0, <2>1 DEF InTurn
<1>2. ASSUME NEW t \in Slots
      PROVE  /\ Room(t) <= NextOrder(TableOf(t))
             /\ t \in Linked(Slots) => order[t] < NextOrder(TableOf(t))
  <2>1. t \in Linked(Slots) => order[t] < NextOrder(TableOf(t))
    BY NextOrderIsNext DEF Inv, TypeOK, Linked, TableOf, Slots
  <2> QED
    BY <1>1, <2>1, NextOrderHasRoom
<1>3. ASSUME NEW q \in Commands, NEW s \in Slots, HasBase(q, s)'
      PROVE  Base(q, s)' = NextOrder(TableOf(s)) \/ (HasBase(q, s) /\ Base(q, s)' = Base(q, s))
  <2>1. CASE q # p
    <3>1. command'[q] = command[q]
      BY <1>0, <2>1 DEF ReadItemBase, ReadAlbumBase
    <3> QED
      BY <1>3, <3>1 DEF HasBase, Base
  <2>2. CASE q = p /\ ReadItemBase(p)
    <3>1. command'[p].pc = "albums" /\ command'[p].itemBase = NextOrder(Items)
      BY <1>0, <2>2 DEF ReadItemBase, Command
    <3>2. s \in Items
      BY <1>3, <2>2, <3>1 DEF HasBase
    <3> QED
      BY <2>2, <3>1, <3>2 DEF Base, TableOf
  <2>3. CASE q = p /\ ReadAlbumBase(p)
    <3>1. /\ command[p].pc = "albums" /\ command'[p].albumBase = NextOrder(Albums)
          /\ command'[p].itemBase = command[p].itemBase
      BY <1>0, <2>3 DEF ReadAlbumBase, Command
    <3> QED
      BY <2>3, <3>1 DEF Base, HasBase, TableOf, Slots
  <2> QED
    BY <2>1, <2>2, <2>3
<1>4. ASSUME NEW q \in Commands, NEW s \in Slots, HasBase(q, s)'
      PROVE  Room(s) <= Base(q, s)' /\ (s \in Linked(Slots) => order[s] < Base(q, s)')
  <2>1. CASE Base(q, s)' = NextOrder(TableOf(s))
    <3>1. Room(s) <= NextOrder(TableOf(s)) /\ (s \in Linked(Slots) => order[s] < NextOrder(TableOf(s)))
      BY <1>2
    <3> QED
      BY <2>1, <3>1
  <2>2. CASE HasBase(q, s) /\ Base(q, s)' = Base(q, s)
    <3>1. Room(s) <= Base(q, s) /\ (s \in Linked(Slots) => order[s] < Base(q, s))
      BY <2>2 DEF OrderlyInv, LinksAppend
    <3> QED
      BY <2>2, <3>1
  <2> QED
    BY <1>3, <1>4, <2>1, <2>2
<1> QED
  BY <1>0, <1>4 DEF LinksAppend, Linked, Room, Curated, TableOf

\* A seed numbers the curated slots, within their room.
LEMMA CommitSeedKeeps ==
  ASSUME Inv, Inv', OrderlyInv, OneSetOfSlots, orderly, NEW p \in Commands, CommitSeed(p)
  PROVE  SeedComesFirst' /\ CuratedThenBulk' /\ NoTies' /\ LinksAppend'
<1> DEFINE f == command[p].slots
<1>1. /\ f \in Fixtures /\ seeded' = f /\ Curated = Members(f)
      /\ \A s \in Curated : order'[s] = Place(f, s)
      /\ \A s \in Slots \ Curated : order'[s] = order[s]
  BY SeededOrders DEF Curated, OneSetOfSlots
<1> HIDE DEF f
<1>2. ASSUME NEW s \in Curated PROVE order'[s] \in Nat /\ order'[s] < Room(s)
  BY <1>1, PlaceType, PlaceBound DEF Room
<1>3. ASSUME NEW s \in Linked(Slots)', s \notin Curated PROVE s \in Linked(Slots) /\ s \in Bulk /\ Room(s) <= order'[s]
  BY <1>1, <1>3 DEF Linked, OrderlyInv, CuratedThenBulk
<1>4. SeedComesFirst'
  BY <1>1, SectionAssumption DEF SeedComesFirst
<1>5. CuratedThenBulk'
  <2>1. \A s \in Linked(Slots)' : \/ s \in Curated /\ order'[s] < Room(s)
                                  \/ s \in Bulk /\ Room(s) <= order'[s]
    BY <1>2, <1>3
  <2> QED
    BY <2>1 DEF CuratedThenBulk, Room, Curated, TableOf, Bulk
<1>6. NoTies'
  <2> SUFFICES ASSUME NEW s \in Linked(Slots)', NEW t \in Linked(Slots)', SameTable(s, t), order'[s] = order'[t]
               PROVE  s = t
    BY DEF NoTies, SameTable
  <2>1. Room(s) = Room(t) /\ Room(s) \in Nat /\ order'[s] \in Nat
    BY RoomType DEF Linked, Inv, TypeOK
  <2>2. CASE s \in Curated /\ t \in Curated
    BY <1>1, <2>2, PlacesDiffer DEF SameTable
  <2>3. CASE s \notin Curated /\ t \notin Curated
    BY <1>1, <1>3, <2>3 DEF OrderlyInv, NoTies, Linked
  <2>4. CASE ~(s \in Curated <=> t \in Curated)
    <3>1. (order'[s] < Room(s) /\ Room(t) <= order'[t]) \/ (order'[t] < Room(t) /\ Room(s) <= order'[s])
      BY <1>2, <1>3, <2>4
    <3> QED
      BY <2>1, <3>1
  <2> QED
    BY <2>2, <2>3, <2>4
<1>7. LinksAppend'
  <2>1. \A q \in Commands : command'[q].pc = "idle"
    <3> SUFFICES ASSUME NEW q \in Commands PROVE command'[q].pc = "idle"
      OBVIOUS
    <3>1. CASE q = p
      BY <3>1 DEF CommitSeed, Idle
    <3>2. CASE q # p
      <4>1. command[q].pc = "idle"
        BY <3>2, Alone DEF CommitSeed
      <4> QED
        BY <3>2, <4>1 DEF CommitSeed
    <3> QED
      BY <3>1, <3>2
  <2> QED
    BY <2>1 DEF LinksAppend, HasBase
<1> QED
  BY <1>4, <1>5, <1>6, <1>7

\* A sample is appended: behind all links, each slot at a place of its own.
LEMMA CommitLinkKeeps ==
  ASSUME Inv, Inv', OrderlyInv, OneSetOfSlots, orderly, NEW p \in Commands, CommitLink(p)
  PROVE  SeedComesFirst' /\ CuratedThenBulk' /\ NoTies' /\ LinksAppend'
<1> DEFINE sample == command[p].slots
<1>1. /\ sample \in Samples
      /\ \A s \in Slots : order'[s] = IF Inserted(p, s) THEN Appended(p, s) ELSE order[s]
      /\ UNCHANGED seeded
  BY LinkedOrders DEF CommitLink
<1>2. ASSUME NEW s \in Slots, Inserted(p, s)
      PROVE  /\ s \in Bulk /\ s \in Members(sample)
             /\ Place(sample, s) \in Nat /\ Base(p, s) \in Nat
             /\ order'[s] = Base(p, s) + Place(sample, s)
             /\ Room(s) <= Base(p, s)
  <2>1. s \in Members(sample) /\ s \in Bulk /\ Place(sample, s) \in Nat
    BY <1>1, <1>2, PlaceType DEF Inserted, Bulk
  <2>2. Base(p, s) \in Nat
    BY DEF Base, Inv, TypeOK, Command
  <2>3. order'[s] = Base(p, s) + Place(sample, s)
    BY <1>1, <1>2 DEF Appended, Base
  <2>4. Room(s) <= Base(p, s)
    BY DEF CommitLink, OrderlyInv, LinksAppend, HasBase
  <2> QED
    BY <2>1, <2>2, <2>3, <2>4
<1>3. ASSUME NEW s \in Linked(Slots)', ~Inserted(p, s)
      PROVE  s \in Linked(Slots) /\ order'[s] = order[s] /\ order[s] \in Nat /\ order[s] < Base(p, s)
  <2>1. s \in Linked(Slots) /\ order'[s] = order[s]
    BY <1>1, <1>3 DEF Linked
  <2> QED
    BY <2>1 DEF Linked, Inv, TypeOK, CommitLink, OrderlyInv, LinksAppend, HasBase
<1> HIDE DEF sample
<1>4. SeedComesFirst'
  BY DEF SeedComesFirst, CommitLink, OrderlyInv, InTurn
<1>5. CuratedThenBulk'
  <2>1. ASSUME NEW s \in Linked(Slots)'
        PROVE  \/ s \in Curated /\ order'[s] < Room(s)
               \/ s \in Bulk /\ Room(s) <= order'[s]
    <3>1. CASE Inserted(p, s)
      <4>1. s \in Slots
        BY DEF Linked
      <4>2. Room(s) \in Nat
        BY RoomType
      <4> QED
        BY <1>2, <3>1, <4>1, <4>2
    <3>2. CASE ~Inserted(p, s)
      BY <1>3, <3>2 DEF OrderlyInv, CuratedThenBulk
    <3> QED
      BY <3>1, <3>2
  <2> QED
    BY <2>1 DEF CuratedThenBulk, Room, Curated, TableOf, Bulk
<1>6. NoTies'
  <2> SUFFICES ASSUME NEW s \in Linked(Slots)', NEW t \in Linked(Slots)', SameTable(s, t), order'[s] = order'[t]
               PROVE  s = t
    BY DEF NoTies, SameTable
  <2>1. Base(p, s) = Base(p, t) /\ s \in Slots /\ t \in Slots
    BY SectionAssumption DEF SameTable, Base, Linked, Slots
  <2>2. CASE Inserted(p, s) /\ Inserted(p, t)
    <3>1. Place(sample, s) = Place(sample, t)
      BY <1>2, <2>1, <2>2
    <3> QED
      BY <1>1, <1>2, <2>1, <2>2, <3>1, PlacesDiffer DEF SameTable
  <2>3. CASE ~Inserted(p, s) /\ ~Inserted(p, t)
    BY <1>3, <2>3 DEF OrderlyInv, NoTies
  <2>4. CASE Inserted(p, s) /\ ~Inserted(p, t)
    BY <1>2, <1>3, <2>1, <2>4
  <2>5. CASE ~Inserted(p, s) /\ Inserted(p, t)
    BY <1>2, <1>3, <2>1, <2>5
  <2> QED
    BY <2>2, <2>3, <2>4, <2>5
<1>7. LinksAppend'
  <2>1. \A q \in Commands : command'[q].pc = "idle"
    <3> SUFFICES ASSUME NEW q \in Commands PROVE command'[q].pc = "idle"
      OBVIOUS
    <3>1. CASE q = p
      BY <3>1 DEF CommitLink, Idle, Inv, TypeOK
    <3>2. CASE q # p
      BY <3>2, Alone DEF CommitLink, Inv, TypeOK
    <3> QED
      BY <3>1, <3>2
  <2> QED
    BY <2>1 DEF LinksAppend, HasBase
<1> QED
  BY <1>4, <1>5, <1>6, <1>7

\* The statements of a query read links without ties.
LEMMA ReadsKeep ==
  ASSUME Inv, OrderlyInv, orderly, ReadItems \/ ReadAlbums \/ Reply
  PROVE  ReadsAreUntied'
<1> USE SectionAssumption
<1>1. \A s, t \in Slots : SameTable(s, t) /\ order[s] = order[t] /\ order[s] # Unlinked => s = t
  BY DEF OrderlyInv, NoTies, Linked
<1>2. CASE ReadItems
  BY <1>1, <1>2 DEF ReadItems, ReadsAreUntied, SameTable, Slots
<1>3. CASE ReadAlbums
  BY <1>1, <1>3 DEF ReadAlbums, ReadsAreUntied, SameTable, Slots, OrderlyInv
<1>4. CASE Reply
  BY <1>4 DEF Reply, ReadsAreUntied, Nothing
<1> QED
  BY <1>2, <1>3, <1>4

\* Every step keeps the invariant.
LEMMA OrderlyStep ==
  ASSUME OneSetOfSlots, Inv, Inv', OrderlyInv, [Next]_vars
  PROVE  OrderlyInv'
<1> SUFFICES ASSUME orderly' PROVE OrderlyInv'
  BY DEF OrderlyInv
<1>1. CASE UNCHANGED vars
  BY <1>1 DEF vars, OrderlyInv, InTurn, SeedComesFirst, CuratedThenBulk, NoTies, LinksAppend, HasBase, ReadsAreUntied,
              Linked, Room, Curated, TableOf, Bulk, Base, SameTable
<1>2. CASE Next
  <2>1. orderly /\ InTurn' /\ Step
    BY <1>2 DEF Next
  <2>2. ASSUME UNCHANGED order, UNCHANGED seeded PROVE SeedComesFirst' /\ CuratedThenBulk' /\ NoTies'
    BY <2>1, <2>2 DEF OrderlyInv, SeedComesFirst, CuratedThenBulk, NoTies, Linked, Room, Curated,
                      TableOf, Bulk, SameTable
  <2>3. ASSUME NEW p \in Commands, CommandStep(p)
        PROVE  OrderlyInv'
    <3>1. ReadsAreUntied'
      BY <2>1, <2>3 DEF CommandStep, BeginSeed, CommitSeed, BeginLink, ReadItemBase,
                        ReadAlbumBase, CommitLink, Fail, OrderlyInv,
                        ReadsAreUntied, SameTable
    <3>2. CASE CommitSeed(p)
      BY <2>1, <3>1, <3>2, CommitSeedKeeps DEF OrderlyInv
    <3>3. CASE CommitLink(p)
      BY <2>1, <3>1, <3>3, CommitLinkKeeps DEF OrderlyInv
    <3>4. CASE ReadItemBase(p) \/ ReadAlbumBase(p)
      <4>1. LinksAppend'
        BY <2>1, <3>4, BaseRead
      <4> QED
        BY <2>1, <2>2, <3>1, <3>4, <4>1 DEF OrderlyInv, ReadItemBase, ReadAlbumBase
    <3>5. ASSUME NEW f \in Fixtures, BeginSeed(p, f) PROVE OrderlyInv'
      <4>1. UNCHANGED order /\ UNCHANGED seeded
        BY <3>5 DEF BeginSeed
      <4>2. \A q \in Commands : command'[q].pc \in {"albums", "link"} => command'[q] = command[q]
        <5>1. command' = [command EXCEPT ![p] = [Idle EXCEPT !.pc = "seed", !.slots = f, !.creates = ~section]]
          BY <3>5 DEF BeginSeed
        <5>2. command'[p].pc = "seed" /\ \A q \in Commands \ {p} : command'[q] = command[q]
          BY <5>1 DEF Inv, TypeOK, Idle
        <5> QED
          BY <5>2
      <4>3. LinksAppend'
        BY <2>1, <4>1, <4>2 DEF OrderlyInv, LinksAppend, HasBase, Base, Linked, Room, Curated, TableOf
      <4> QED
        BY <2>1, <2>2, <3>1, <4>1, <4>3 DEF OrderlyInv
    <3>6. CASE Fail(p)
      <4>1. UNCHANGED order /\ UNCHANGED seeded
        BY <3>6 DEF Fail
      <4>2. \A q \in Commands : command'[q].pc \in {"albums", "link"} => command'[q] = command[q]
        BY <3>6 DEF Fail, Idle, Inv, TypeOK
      <4>3. LinksAppend'
        BY <2>1, <4>1, <4>2 DEF OrderlyInv, LinksAppend, HasBase, Base, Linked, Room, Curated, TableOf
      <4> QED
        BY <2>1, <2>2, <3>1, <4>1, <4>3 DEF OrderlyInv
    <3>7. ASSUME NEW sample \in Samples, BeginLink(p, sample) PROVE OrderlyInv'
      <4>1. UNCHANGED order /\ UNCHANGED seeded
        BY <3>7 DEF BeginLink
      <4>2. \A q \in Commands : command'[q].pc \in {"albums", "link"} => command'[q] = command[q]
        <5>1. command' = [command EXCEPT ![p] = [Idle EXCEPT !.pc = "items", !.slots = sample, !.creates = ~section]]
          BY <3>7 DEF BeginLink
        <5>2. command'[p].pc = "items" /\ \A q \in Commands \ {p} : command'[q] = command[q]
          BY <5>1 DEF Inv, TypeOK, Idle
        <5> QED
          BY <5>2
      <4>3. LinksAppend'
        BY <2>1, <4>1, <4>2 DEF OrderlyInv, LinksAppend, HasBase, Base, Linked, Room, Curated, TableOf
      <4> QED
        BY <2>1, <2>2, <3>1, <4>1, <4>3 DEF OrderlyInv
    <3> QED
      BY <2>3, <3>2, <3>3, <3>4, <3>5, <3>6, <3>7 DEF CommandStep
  <2>4. CASE ReadItems \/ ReadAlbums \/ Reply
    <3>1. UNCHANGED <<order, seeded, command>>
      BY <2>4 DEF ReadItems, ReadAlbums, Reply
    <3>2. LinksAppend'
      BY <2>1, <3>1 DEF OrderlyInv, LinksAppend, HasBase, Base, Linked, Room, Curated, TableOf
    <3> QED
      BY <2>1, <2>2, <2>4, <3>1, <3>2, ReadsKeep DEF OrderlyInv
  <2> QED
    BY <2>1, <2>3, <2>4 DEF Step
<1> QED
  BY <1>1, <1>2

\* So it holds of all reachable states.
THEOREM OrderlyInvariance == ASSUME OneSetOfSlots PROVE Spec => []OrderlyInv
<1>1. Inv /\ Inv' /\ OrderlyInv /\ [Next]_vars => OrderlyInv'
  BY OrderlyStep
<1> QED
  BY <1>1, OrderlyInit, Invariance, PTL DEF Spec

\* Two entries of a reply are never tied, although its two statements may see the
\* table of links before and after a commit.
THEOREM RepliesAreOrdered == ASSUME OneSetOfSlots PROVE Spec => []ReplyIsOrdered
<1>1. Inv /\ OrderlyInv => ReplyIsOrdered
  <2> SUFFICES ASSUME Inv, OrderlyInv, orderly, reader.pc = "done", NEW s \in Entries, NEW t \in Entries, s # t
               PROVE  Precedes(s, t) \/ Precedes(t, s)
    BY DEF ReplyIsOrdered
  <2>1. /\ s \in Slots /\ t \in Slots /\ reader.read[s] # Unlinked /\ reader.read[t] # Unlinked
        /\ reader.read[s] \in Nat /\ reader.read[t] \in Nat
    BY DEF Entries, Inv, TypeOK
  <2>2. CASE reader.read[s] = reader.read[t]
    <3>1. ~SameTable(s, t)
      BY <2>1, <2>2 DEF OrderlyInv, ReadsAreUntied
    <3> QED
      BY <2>1, <2>2, <3>1 DEF SameTable, Precedes, Slots
  <2>3. CASE reader.read[s] # reader.read[t]
    BY <2>1, <2>3 DEF Precedes
  <2> QED
    BY <2>2, <2>3
<1> QED
  BY <1>1, Invariance, OrderlyInvariance, PTL

\* Bulk rows stay behind the curated ones, also when those are numbered anew.
THEOREM BulkStaysBehind == ASSUME OneSetOfSlots PROVE Spec => []BulkSortsLast
<1>1. Inv /\ OrderlyInv => BulkSortsLast
  <2> SUFFICES ASSUME Inv, OrderlyInv, orderly, NEW s \in Bulk, NEW t \in Slots \ Bulk,
                      order[s] # Unlinked, order[t] # Unlinked, s \in Items <=> t \in Items
               PROVE  order[t] < order[s]
    BY DEF BulkSortsLast
  <2>1. s \in Linked(Slots) /\ t \in Linked(Slots) /\ order[s] \in Nat /\ order[t] \in Nat
    BY CuratedIsNotBulk DEF Linked, Inv, TypeOK
  <2>2. SameTable(s, t)
    BY CuratedIsNotBulk, SectionAssumption DEF SameTable, Slots
  <2>3. Room(s) = Room(t) /\ Room(s) \in Nat
    BY <2>2, RoomType
  <2>4. Room(s) <= order[s] /\ order[t] < Room(t)
    BY <2>1, CuratedIsNotBulk DEF OrderlyInv, CuratedThenBulk
  <2> QED
    BY <2>1, <2>3, <2>4
<1> QED
  BY <1>1, Invariance, OrderlyInvariance, PTL
=============================================================================
