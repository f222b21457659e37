--------------------------- MODULE SurfacesProofs ---------------------------
(***************************************************************************)
(* The properties of Surfaces, for every set of surfaces and resources and *)
(* for all bounds: the invariant IInv of Surfaces holds of every step, and *)
(* the properties that the runs check follow from it.                      *)
(*                                                                         *)
(* The garbage collection runs in the middle of most steps, so the lemmas  *)
(* are about records m of the manager, d of the display and e of the       *)
(* embedder: what an operation promises of the record it returns.          *)
(***************************************************************************)
EXTENDS Surfaces, FiniteSetTheorems, TLAPS

\* The children whose frame uses a resource.
Users(m, r) == {id \in Children : r \in ResourcesIn(m.surfaces[id].frame)}

\* ResourcesAccounted, of a holder whose resources are used so many times.
Counted(m, uses) ==
  m.factory => \A r \in Resources :
    /\ m.alive[r] = uses[r]
    /\ m.received[r] = m.in_flight[r]
    /\ m.alive[r] = 0 <=> m.in_flight[r] = 0

Uses(m, d) ==
  [r \in Resources |-> Cardinality(Users(m, r)) + Cardinality(Imports(d, Children, r))]

Accounted(m, d) == Counted(m, Uses(m, d))

\* EmbeddedSurfacesExist and NothingLeaks, of records.
EmbeddedExists(m, e) ==
  e.surface # NoSurface =>
    \A id \in ReferencedSurfaces(m, e.surface) : Exists(m, id) \/ e.broken
NoLeak(m) ==
  \A id \in Ids : m.surfaces[id].state = "destroyed" => id \in LiveSurfaces(m)

\* The two parts of CallbacksTracked.
Waiting(m) == {id \in Ids : m.surfaces[id].callback}
RootHasFrame(m, d) == d.root # NoSurface /\ ~d.locked => HasFrame(m, d.root)

\* What an operation may start from, and what holds when nothing is left to
\* collect.
Loose(m, d, e) ==
  /\ m \in ManagerTypes /\ d \in DisplayTypes /\ e \in EmbedderTypes
  /\ Tidy(m)
  /\ ImportsKnown(d)
  /\ Accounted(m, d)
  /\ OwnersInOrder(m, e)
  /\ SequencesInOrder(m, e)
  /\ TreeHeld(m, e)
  /\ EmbeddedExists(m, e)

Kept(m, d, e) ==
  /\ Loose(m, d, e)
  /\ NoLeak(m)
  /\ \A id \in Roots : m.surfaces[id].state # "destroyed"

\* IInv, of records.
Good(m, d, e) ==
  /\ Kept(m, d, e)
  /\ d.root = e.surface
  /\ e.surface # NoSurface => e.output
  /\ ~e.alive => ~e.output
  /\ Waiting(m) \subseteq d.previous \cup {d.root}
  /\ RootHasFrame(m, d)

-----------------------------------------------------------------------------
(* Sets of surfaces and of imports are finite.                             *)

LEMMA Constants ==
  /\ NoFrame \notin Frames
  /\ NoSurface \notin Ids
  /\ Roots \cap Children = {}
  /\ MaxSequence \in Nat /\ MaxInFlight \in Nat /\ MaxImports \in Nat
  /\ IsFiniteSet(Ids) /\ IsFiniteSet(Children)
  BY SurfacesAssumption, FS_Subset DEF Ids

LEMMA Users_ ==
  ASSUME NEW m, NEW r
  PROVE  IsFiniteSet(Users(m, r)) /\ Cardinality(Users(m, r)) \in Nat
  BY Constants, FS_Subset, FS_CardinalityType DEF Users

LEMMA Imports_ ==
  ASSUME NEW d, NEW ids, NEW r
  PROVE  IsFiniteSet(Imports(d, ids, r)) /\ Cardinality(Imports(d, ids, r)) \in Nat
  <1>1. IsFiniteSet((ids \cap Children) \X (1 .. MaxImports))
    <2>1. IsFiniteSet(ids \cap Children) /\ IsFiniteSet(1 .. MaxImports)
      BY Constants, FS_Subset, FS_Interval
    <2> QED
      BY <2>1, FS_Product
  <1> QED
    BY <1>1, FS_Subset, FS_CardinalityType DEF Imports

LEMMA UsesType ==
  ASSUME NEW m, NEW d
  PROVE  Uses(m, d) \in [Resources -> Nat]
  BY Users_, Imports_ DEF Uses

\* What a part of a finite set leaves.
LEMMA Without ==
  ASSUME NEW S, NEW T, IsFiniteSet(S), T \subseteq S
  PROVE  /\ IsFiniteSet(T)
         /\ Cardinality(T) \in Nat /\ Cardinality(S) \in Nat
         /\ Cardinality(T) <= Cardinality(S)
         /\ Cardinality(S \ T) = Cardinality(S) - Cardinality(T)
  <1>1. IsFiniteSet(T) /\ Cardinality(T) <= Cardinality(S)
    BY FS_Subset
  <1>2. Cardinality(T) \in Nat /\ Cardinality(S) \in Nat
    BY <1>1, FS_CardinalityType
  <1>3. Cardinality(S \ T) = Cardinality(S) - Cardinality(S \cap T)
    BY FS_Difference
  <1>4. S \cap T = T
    OBVIOUS
  <1> QED
    BY <1>1, <1>2, <1>3, <1>4

-----------------------------------------------------------------------------
(* SurfaceResourceHolder.                                                  *)

\* What the operations on the counts leave alone.
SameSurfaces(m, c) ==
  /\ c.surfaces = m.surfaces
  /\ c.satisfied = m.satisfied
  /\ c.namespace_valid = m.namespace_valid
  /\ c.factory = m.factory

\* Giving references back keeps the counts exact.
LEMMA Unref ==
  ASSUME NEW m \in ManagerTypes, NEW counts \in [Resources -> Nat],
         NEW uses \in [Resources -> Nat], Counted(m, uses),
         m.factory => \A r \in Resources : counts[r] <= uses[r], NEW c,
         c = UnrefResources(m, counts)
  PROVE  /\ c \in ManagerTypes
         /\ SameSurfaces(m, c)
         /\ Counted(c, [r \in Resources |-> uses[r] - counts[r]])
  <1>1. CASE ~m.factory
    BY <1>1 DEF UnrefResources, SameSurfaces, Counted
  <1>2. CASE m.factory
    <2> DEFINE returned == {r \in Resources : m.received[r] > 0 /\ counts[r] > 0
                                                /\ m.alive[r] = counts[r]}
               received == [r \in Resources |-> IF r \in returned THEN 0 ELSE m.received[r]]
               alive == [r \in Resources |-> m.alive[r] - counts[r]]
               in_flight == [r \in Resources |->
                              IF r \in returned THEN m.in_flight[r] - ReturnCount(m, counts, r)
                              ELSE m.in_flight[r]]
    <2>1. \A r \in Resources : /\ m.alive[r] \in Nat /\ m.received[r] \in Nat
                               /\ m.in_flight[r] \in Nat
                               /\ counts[r] \in Nat /\ counts[r] <= m.alive[r]
                               /\ m.alive[r] = uses[r] /\ m.received[r] = m.in_flight[r]
                               /\ m.alive[r] = 0 <=> m.in_flight[r] = 0
      BY <1>2 DEF ManagerTypes, Counted
    <2>2. /\ received \in [Resources -> Nat]
          /\ alive \in [Resources -> Nat]
          /\ in_flight \in [Resources -> Nat]
      BY <2>1 DEF ReturnCount
    <2>3. c = [m EXCEPT !.received = received, !.alive = alive, !.in_flight = in_flight]
      BY <1>2 DEF UnrefResources, ManagerTypes
    <2>4. /\ c \in ManagerTypes
          /\ SameSurfaces(m, c)
          /\ c.received = received /\ c.alive = alive /\ c.in_flight = in_flight
      <3> HIDE DEF received, alive, in_flight
      <3> QED
        BY <2>2, <2>3 DEF ManagerTypes, SameSurfaces
    <2>5. Counted(c, [r \in Resources |-> uses[r] - counts[r]])
      <3> SUFFICES ASSUME NEW r \in Resources
                   PROVE  /\ c.alive[r] = uses[r] - counts[r]
                          /\ c.received[r] = c.in_flight[r]
                          /\ c.alive[r] = 0 <=> c.in_flight[r] = 0
        BY DEF Counted
      <3> DEFINE back == m.received[r] > 0 /\ counts[r] > 0 /\ m.alive[r] = counts[r]
      <3>1. /\ c.alive[r] = m.alive[r] - counts[r]
            /\ c.received[r] = IF back THEN 0 ELSE m.received[r]
            /\ c.in_flight[r] = IF back THEN m.in_flight[r] - m.received[r] ELSE m.in_flight[r]
        BY <2>4 DEF ReturnCount
      <3> QED
        BY <2>1, <3>1
    <2> QED
      BY <2>3, <2>4, <2>5
  <1> QED
    BY <1>1, <1>2

LEMMA OnceEachType ==
  ASSUME NEW resources
  PROVE  OnceEach(resources) \in [Resources -> Nat]
  BY DEF OnceEach

\* So does receiving from the child,
LEMMA Receive ==
  ASSUME NEW m \in ManagerTypes, NEW resources \in SUBSET Resources,
         NEW uses \in [Resources -> Nat], Counted(m, uses), NEW c,
         c = ReceiveFromChild(m, resources)
  PROVE  /\ c \in ManagerTypes
         /\ SameSurfaces(m, c)
         /\ Counted(c, [r \in Resources |-> uses[r] + OnceEach(resources)[r]])
  <1> DEFINE Plus(f) == [r \in Resources |-> f[r] + OnceEach(resources)[r]]
  <1>1. /\ Plus(m.received) \in [Resources -> Nat]
        /\ Plus(m.alive) \in [Resources -> Nat]
        /\ Plus(m.in_flight) \in [Resources -> Nat]
    BY OnceEachType DEF ManagerTypes
  <1>2. c = [m EXCEPT !.received = Plus(m.received), !.alive = Plus(m.alive),
                      !.in_flight = Plus(m.in_flight)]
    BY DEF ReceiveFromChild, ManagerTypes
  <1>3. /\ c \in ManagerTypes
        /\ SameSurfaces(m, c)
        /\ c.received = Plus(m.received) /\ c.alive = Plus(m.alive)
        /\ c.in_flight = Plus(m.in_flight)
    <2> HIDE DEF Plus
    <2> QED
      BY <1>1, <1>2 DEF ManagerTypes, SameSurfaces
  <1>4. Counted(c, [r \in Resources |-> uses[r] + OnceEach(resources)[r]])
    BY <1>3, OnceEachType DEF Counted, ManagerTypes, SameSurfaces
  <1> QED
    BY <1>2, <1>3, <1>4

\* and taking more references to what is in use.
LEMMA Ref ==
  ASSUME NEW m \in ManagerTypes, NEW counts \in [Resources -> Nat],
         NEW uses \in [Resources -> Nat], Counted(m, uses),
         \A r \in Resources : counts[r] > 0 => uses[r] > 0, NEW c,
         c = RefResources(m, counts)
  PROVE  /\ c \in ManagerTypes
         /\ SameSurfaces(m, c)
         /\ Counted(c, [r \in Resources |-> uses[r] + counts[r]])
  BY DEF RefResources, SameSurfaces, Counted, ManagerTypes

-----------------------------------------------------------------------------
(* Which surfaces are live.                                                *)

\* A frame shows only children.
LEMMA ShowsChildren ==
  ASSUME NEW m \in ManagerTypes, NEW id \in Ids
  PROVE  ReferencedSurfaces(m, id) \subseteq Children
  BY DEF ManagerTypes, SurfaceTypes, Frames, ReferencedSurfaces

\* Sets of children that have some of the roots count as well.
Reached(m, roots) ==
  {id \in Ids : \A ids \in SUBSET Children : Closed(m, roots \cup ids) => id \in roots \cup ids}

LEMMA ReachedByAll == \A m, roots : ReachableFrom(m, roots) = Reached(m, roots)
  <1> SUFFICES ASSUME NEW m, NEW roots
               PROVE  ReachableFrom(m, roots) = Reached(m, roots)
    OBVIOUS
  <1>1. ASSUME NEW id \in ReachableFrom(m, roots)
        PROVE  id \in Reached(m, roots)
    <2>1. ASSUME NEW ids \in SUBSET Children, Closed(m, roots \cup ids)
          PROVE  id \in roots \cup ids
      <3>1. roots \cup ids = roots \cup (ids \ roots)
        OBVIOUS
      <3>2. Closed(m, roots \cup (ids \ roots)) /\ ids \ roots \in SUBSET (Children \ roots)
        BY <2>1, <3>1
      <3> QED
        BY <1>1, <3>2 DEF ReachableFrom
    <2> QED
      BY <1>1, <2>1 DEF Reached, ReachableFrom
  <1>2. ASSUME NEW id \in Reached(m, roots)
        PROVE  id \in ReachableFrom(m, roots)
    BY <1>2 DEF Reached, ReachableFrom
  <1> QED
    BY <1>1, <1>2

\* The roots of the collection and the children they lead to are the live
\* surfaces, and nothing smaller is closed.
LEMMA Live ==
  ASSUME NEW m \in ManagerTypes
  PROVE  /\ GCRoots(m) \subseteq LiveSurfaces(m)
         /\ LiveSurfaces(m) \subseteq GCRoots(m) \cup Children
         /\ Closed(m, LiveSurfaces(m))
         /\ \A ids \in SUBSET Children :
              Closed(m, GCRoots(m) \cup ids) => LiveSurfaces(m) \subseteq GCRoots(m) \cup ids
  <1>1. GCRoots(m) \subseteq LiveSurfaces(m)
    BY ReachedByAll DEF LiveSurfaces, Reached, GCRoots
  <1>2. \A ids \in SUBSET Children :
          Closed(m, GCRoots(m) \cup ids) => LiveSurfaces(m) \subseteq GCRoots(m) \cup ids
    BY ReachedByAll DEF LiveSurfaces, Reached
  <1>3. Closed(m, GCRoots(m) \cup Children)
    BY ShowsChildren DEF Closed, GCRoots, Ids
  <1>4. Closed(m, LiveSurfaces(m))
    <2>1. SUFFICES ASSUME NEW id \in LiveSurfaces(m), NEW ref \in ReferencedSurfaces(m, id),
                          Exists(m, ref), NEW ids \in SUBSET Children,
                          Closed(m, GCRoots(m) \cup ids)
                   PROVE  ref \in GCRoots(m) \cup ids
      BY ReachedByAll DEF Closed, LiveSurfaces, Reached, Exists
    <2>2. id \in GCRoots(m) \cup ids
      BY <2>1, <1>2
    <2> QED
      BY <2>1, <2>2 DEF Closed
  <1> QED
    BY <1>1, <1>2, <1>3, <1>4

\* A surface stays live if the roots stay, and what live surfaces show.
LEMMA LiveGrows ==
  ASSUME NEW m \in ManagerTypes, NEW c \in ManagerTypes,
         GCRoots(m) \subseteq GCRoots(c),
         \A id \in LiveSurfaces(m) :
           /\ Exists(m, id) => Exists(c, id)
           /\ ReferencedSurfaces(m, id) = ReferencedSurfaces(c, id)
  PROVE  LiveSurfaces(m) \subseteq LiveSurfaces(c)
  <1>1. SUFFICES ASSUME NEW ids \in SUBSET Children, Closed(c, GCRoots(c) \cup ids)
                 PROVE  LiveSurfaces(m) \subseteq GCRoots(c) \cup ids
    BY ReachedByAll DEF LiveSurfaces, Reached
  <1> DEFINE met == (GCRoots(c) \cup ids) \cap LiveSurfaces(m) \cap Children
  <1>2. Closed(m, GCRoots(m) \cup met)
    <2>1. SUFFICES ASSUME NEW id \in GCRoots(m) \cup met, NEW ref \in ReferencedSurfaces(m, id),
                          Exists(m, ref)
                   PROVE  ref \in met
      BY DEF Closed
    <2>2. id \in LiveSurfaces(m) /\ id \in GCRoots(c) \cup ids /\ id \in Ids
      BY Live DEF GCRoots, Ids
    <2>3. ref \in LiveSurfaces(m) /\ ref \in Children
      BY <2>1, <2>2, Live, ShowsChildren DEF Closed
    <2>4. ref \in GCRoots(c) \cup ids
      BY <1>1, <2>1, <2>2, <2>3 DEF Closed
    <2> QED
      BY <2>3, <2>4
  <1>3. LiveSurfaces(m) \subseteq GCRoots(m) \cup met
    BY <1>2, Live
  <1> QED
    BY <1>3

-----------------------------------------------------------------------------
(* GarbageCollectSurfaces.                                                 *)

\* What a collection does to a surface: it is deleted, or it keeps all but these.
Gone(m, c, id) ==
  /\ m.surfaces[id].state = "destroyed"
  /\ c.surfaces[id].state = "deleted"
  /\ c.surfaces[id].frame = NoFrame
  /\ ~c.surfaces[id].callback
  /\ c.surfaces[id].dependencies = {}
Stays(m, c, id) ==
  /\ c.surfaces[id].state = m.surfaces[id].state
  /\ c.surfaces[id].frame = m.surfaces[id].frame
  /\ c.surfaces[id].callback = m.surfaces[id].callback
  /\ c.surfaces[id].dependencies = m.surfaces[id].dependencies \ Dropped(m)

LEMMA SurfaceMembers ==
  ASSUME NEW m \in ManagerTypes, NEW id \in Ids
  PROVE  /\ m.surfaces[id] \in SurfaceTypes
         /\ m.surfaces[id].state \in {"none", "owned", "destroyed", "deleted"}
         /\ m.surfaces[id].frame \in Frames \cup {NoFrame}
         /\ m.surfaces[id].callback \in BOOLEAN
         /\ m.surfaces[id].dependencies \in SUBSET Sequences
  BY DEF ManagerTypes, SurfaceTypes

\* Satisfying takes dependencies and nothing else.
LEMMA Satisfy ==
  ASSUME NEW m \in ManagerTypes, NEW s, s = SatisfyDestructionDependencies(m)
  PROVE  /\ s \in ManagerTypes
         /\ \A id \in Ids : Stays(m, s, id)
         /\ s.satisfied \subseteq m.satisfied
         /\ s.namespace_valid = m.namespace_valid
         /\ s.factory = m.factory
         /\ s.received = m.received /\ s.alive = m.alive /\ s.in_flight = m.in_flight
  <1> DEFINE surfaces == [id \in Ids |->
                           [m.surfaces[id] EXCEPT !.dependencies = @ \ Dropped(m)]]
             satisfied == m.satisfied \ UNION {m.surfaces[id].dependencies : id \in Ids}
  <1>1. \A id \in Ids :
          LET surface == [m.surfaces[id] EXCEPT !.dependencies = @ \ Dropped(m)]
          IN /\ surface \in SurfaceTypes
             /\ surface.state = m.surfaces[id].state
             /\ surface.frame = m.surfaces[id].frame
             /\ surface.callback = m.surfaces[id].callback
             /\ surface.dependencies = m.surfaces[id].dependencies \ Dropped(m)
    BY DEF ManagerTypes, SurfaceTypes
  <1>2. surfaces \in [Ids -> SurfaceTypes] /\ \A id \in Ids :
          /\ surfaces[id].state = m.surfaces[id].state
          /\ surfaces[id].frame = m.surfaces[id].frame
          /\ surfaces[id].callback = m.surfaces[id].callback
          /\ surfaces[id].dependencies = m.surfaces[id].dependencies \ Dropped(m)
    BY <1>1
  <1>3. satisfied \in SUBSET Sequences /\ satisfied \subseteq m.satisfied
    BY DEF ManagerTypes
  <1>4. s = [m EXCEPT !.surfaces = surfaces, !.satisfied = satisfied]
    BY DEF SatisfyDestructionDependencies
  <1>5. /\ s \in ManagerTypes
        /\ s.surfaces = surfaces
        /\ s.satisfied = satisfied
        /\ s.namespace_valid = m.namespace_valid
        /\ s.factory = m.factory
        /\ s.received = m.received /\ s.alive = m.alive /\ s.in_flight = m.in_flight
    <2> HIDE DEF surfaces, satisfied
    <2> QED
      BY <1>2, <1>3, <1>4 DEF ManagerTypes
  <1> QED
    BY <1>2, <1>3, <1>5 DEF Stays

\* The surfaces that are deleted give their resources back.
LEMMA Delete ==
  ASSUME NEW m \in ManagerTypes, NEW d, Tidy(m), Accounted(m, d),
         NEW ids \in SUBSET Ids, NEW c, c = DeleteSurfaces(m, ids)
  PROVE  /\ c \in ManagerTypes
         /\ \A id \in ids : /\ c.surfaces[id].state = "deleted"
                            /\ c.surfaces[id].frame = NoFrame
                            /\ ~c.surfaces[id].callback
                            /\ c.surfaces[id].dependencies = {}
         /\ \A id \in Ids \ ids : c.surfaces[id] = m.surfaces[id]
         /\ c.satisfied = m.satisfied
         /\ c.namespace_valid = m.namespace_valid
         /\ c.factory = m.factory
         /\ Accounted(c, d)
  <1> DEFINE Its(r) == {id \in ids : r \in ResourcesIn(m.surfaces[id].frame)}
             counts == [r \in Resources |-> Cardinality(Its(r))]
             deleted == [Surface0 EXCEPT !.state = "deleted"]
             surfaces == [id \in Ids |-> IF id \in ids THEN deleted ELSE m.surfaces[id]]
             without == [m EXCEPT !.surfaces = surfaces]
  <1>1. \A r \in Resources : /\ Its(r) \subseteq Users(m, r)
                             /\ Users(m, r) \ Its(r) = {id \in Children \ ids : id \in Users(m, r)}
    BY DEF Tidy, Users, Ids
  <1>2. \A r \in Resources :
          /\ Cardinality(Its(r)) \in Nat
          /\ Cardinality(Its(r)) <= Cardinality(Users(m, r))
    <2> HIDE DEF Its
    <2> QED
      BY <1>1, Users_, Without
  <1>3. /\ deleted \in SurfaceTypes
        /\ deleted.state = "deleted" /\ deleted.frame = NoFrame
        /\ ~deleted.callback /\ deleted.dependencies = {}
    BY DEF Surface0, SurfaceTypes
  <1>4. surfaces \in [Ids -> SurfaceTypes]
    BY <1>3, SurfaceMembers
  <1>5. /\ without \in ManagerTypes
        /\ without.surfaces = surfaces
        /\ without.satisfied = m.satisfied
        /\ without.namespace_valid = m.namespace_valid
        /\ without.factory = m.factory
        /\ without.received = m.received /\ without.alive = m.alive
        /\ without.in_flight = m.in_flight
    <2> HIDE DEF surfaces
    <2> QED
      BY <1>4 DEF ManagerTypes
  <1>6. c = UnrefResources(without, counts)
    BY DEF DeleteSurfaces
  <1>7. Counted(without, Uses(m, d))
    <2> HIDE DEF without
    <2> QED
      BY <1>5 DEF Accounted, Counted
  <1>8. /\ c \in ManagerTypes
        /\ SameSurfaces(without, c)
        /\ Counted(c, [r \in Resources |-> Uses(m, d)[r] - counts[r]])
    <2>1. counts \in [Resources -> Nat] /\ \A r \in Resources : counts[r] <= Uses(m, d)[r]
      <3>1. \A r \in Resources :
              /\ Uses(m, d)[r] = Cardinality(Users(m, r)) + Cardinality(Imports(d, Children, r))
              /\ Cardinality(Users(m, r)) \in Nat
              /\ Cardinality(Imports(d, Children, r)) \in Nat
        BY Users_, Imports_ DEF Uses
      <3> HIDE DEF Its
      <3> QED
        BY <1>2, <3>1
    <2> HIDE DEF without, counts
    <2> QED
      BY <2>1, <1>5, <1>6, <1>7, UsesType, Unref
  <1>9. \A r \in Resources : Users(c, r) = Users(m, r) \ Its(r)
    BY <1>1, <1>3, <1>5, <1>8 DEF SameSurfaces, Users, ResourcesIn, Ids
  <1>10. Accounted(c, d)
    <2>1. \A r \in Resources :
            /\ Uses(m, d)[r] = Cardinality(Users(m, r)) + Cardinality(Imports(d, Children, r))
            /\ Uses(c, d)[r] = Cardinality(Users(c, r)) + Cardinality(Imports(d, Children, r))
            /\ Cardinality(Users(m, r)) \in Nat /\ Cardinality(Imports(d, Children, r)) \in Nat
      BY Users_, Imports_ DEF Uses
    <2>2. \A r \in Resources : Uses(c, d)[r] = Uses(m, d)[r] - counts[r]
      <3> SUFFICES ASSUME NEW r \in Resources PROVE Uses(c, d)[r] = Uses(m, d)[r] - counts[r]
        OBVIOUS
      <3> HIDE DEF Its
      <3>1. Cardinality(Users(c, r)) = Cardinality(Users(m, r)) - Cardinality(Its(r))
        BY <1>1, <1>9, Users_, Without
      <3> QED
        BY <1>2, <2>1, <3>1
    <2> QED
      BY <1>8, <2>2 DEF Accounted, Counted
  <1> QED
    BY <1>3, <1>5, <1>8, <1>10 DEF SameSurfaces

\* What a collection promises: what it takes it takes whole, what someone owns,
\* awaits or shows stays, and nothing is left that it could take.
LEMMA Collect ==
  ASSUME NEW m \in ManagerTypes, NEW d, Tidy(m), Accounted(m, d),
         NEW c, c = GarbageCollectSurfaces(m)
  PROVE  /\ c \in ManagerTypes
         /\ \A id \in Ids : Gone(m, c, id) \/ Stays(m, c, id)
         /\ \A id \in Ids : m.surfaces[id].dependencies \ Dropped(m) # {} => Stays(m, c, id)
         /\ \A id \in Ids : Exists(c, id) =>
              \A ref \in ReferencedSurfaces(m, id) : Exists(m, ref) => Exists(c, ref)
         /\ \A id \in Roots : c.surfaces[id].state # "destroyed"
         /\ c.satisfied \subseteq m.satisfied
         /\ c.namespace_valid = m.namespace_valid
         /\ c.factory = m.factory
         /\ Tidy(c)
         /\ Accounted(c, d)
         /\ NoLeak(c)
  <1> DEFINE s == SatisfyDestructionDependencies(m)
             live == LiveSurfaces(s)
             dead == {id \in Ids : m.surfaces[id].state = "destroyed"} \ live
  <1>1. c = DeleteSurfaces(s, dead)
    BY DEF GarbageCollectSurfaces
  <1>2. /\ s \in ManagerTypes
        /\ \A id \in Ids : Stays(m, s, id)
        /\ s.satisfied \subseteq m.satisfied
        /\ s.namespace_valid = m.namespace_valid
        /\ s.factory = m.factory
        /\ s.received = m.received /\ s.alive = m.alive /\ s.in_flight = m.in_flight
    BY Satisfy
  <1> HIDE DEF s
  <1>3. Tidy(s)
    BY <1>2 DEF Tidy, Stays, Exists, Ids
  <1>4. \A r : Users(s, r) = Users(m, r)
    BY <1>2 DEF Users, Stays, Ids
  <1>5. Accounted(s, d)
    <2>1. Uses(s, d) = Uses(m, d)
      BY <1>4 DEF Uses
    <2> QED
      BY <1>2, <2>1 DEF Accounted, Counted
  <1>6. /\ c \in ManagerTypes
        /\ \A id \in dead : /\ c.surfaces[id].state = "deleted"
                            /\ c.surfaces[id].frame = NoFrame
                            /\ ~c.surfaces[id].callback
                            /\ c.surfaces[id].dependencies = {}
        /\ \A id \in Ids \ dead : c.surfaces[id] = s.surfaces[id]
        /\ c.satisfied = s.satisfied
        /\ c.namespace_valid = s.namespace_valid
        /\ c.factory = s.factory
        /\ Accounted(c, d)
    <2>1. dead \in SUBSET Ids
      OBVIOUS
    <2> HIDE DEF dead
    <2> QED
      BY <1>1, <1>2, <1>3, <1>5, <2>1, Delete
  <1>7. \A id \in dead : Gone(m, c, id)
    BY <1>6 DEF Gone
  <1>8. \A id \in Ids \ dead : Stays(m, c, id)
    BY <1>2, <1>6 DEF Stays
  <1>9. \A id \in Ids : m.surfaces[id].dependencies \ Dropped(m) # {} => id \notin dead
    <2>1. \A id \in Ids : s.surfaces[id].dependencies # {} => id \in GCRoots(s)
      BY <1>3 DEF Tidy, GCRoots
    <2> QED
      BY <1>2, <2>1, Live DEF Stays
  <1>10. \A id \in Ids : Exists(s, id) /\ id \notin dead => id \in live
    <2>1. \A id \in Ids : s.surfaces[id].state = "owned" => id \in GCRoots(s)
      BY DEF GCRoots, Exists
    <2> QED
      BY <1>2, <2>1, Live DEF Stays, Exists
  <1>11. \A id \in live \cap Ids : Exists(s, id) <=> Exists(c, id)
    BY <1>6 DEF Exists
  <1>12. \A id \in live \cap Ids : ReferencedSurfaces(s, id) = ReferencedSurfaces(c, id)
    BY <1>6 DEF ReferencedSurfaces
  <1>13. \A id \in Ids : ReferencedSurfaces(s, id) = ReferencedSurfaces(m, id)
    BY <1>2 DEF ReferencedSurfaces, Stays
  <1>14. \A id \in Ids : Exists(s, id) <=> Exists(m, id)
    BY <1>2 DEF Exists, Stays
  <1>15. ASSUME NEW id \in Ids, Exists(c, id), NEW ref \in ReferencedSurfaces(m, id), Exists(m, ref)
         PROVE  Exists(c, ref)
    <2>1. id \notin dead /\ Exists(s, id)
      BY <1>6, <1>15 DEF Exists
    <2>2. ref \in Ids /\ Exists(s, ref)
      BY <1>14, <1>15 DEF Exists
    <2>3. ref \in live
      BY <1>2, <1>10, <1>13, <1>15, <2>1, <2>2, Live DEF Closed
    <2> QED
      BY <1>11, <2>2, <2>3
  <1>16. ASSUME NEW id \in Roots PROVE c.surfaces[id].state # "destroyed"
    <2>1. id \in Ids /\ id \notin Children
      BY Constants DEF Ids
    <2>2. s.surfaces[id].state = "destroyed" => id \notin GCRoots(s)
      BY <1>3 DEF GCRoots, Tidy
    <2>3. s.surfaces[id].state = "destroyed" => id \in dead
      BY <1>2, <2>1, <2>2, Live DEF Stays
    <2> QED
      BY <1>6, <2>1, <2>3
  <1>17. Tidy(c)
    BY <1>3, <1>6 DEF Tidy, Exists, Ids, ResourcesIn
  <1>18. NoLeak(c)
    <2>1. GCRoots(s) \subseteq GCRoots(c)
      <3>1. \A id \in GCRoots(s) : id \in Ids /\ id \notin dead
        BY <1>2, Live DEF GCRoots
      <3> QED
        BY <1>6, <3>1 DEF GCRoots, Exists
    <2>2. \A id \in live : id \in Ids
      BY ReachedByAll DEF LiveSurfaces, Reached
    <2>3. live \subseteq LiveSurfaces(c)
      BY <1>2, <1>6, <1>11, <1>12, <2>1, <2>2, LiveGrows
    <2>4. \A id \in Ids : c.surfaces[id].state = "destroyed" => id \in live
      BY <1>2, <1>6, <1>8 DEF Stays
    <2> QED
      BY <2>3, <2>4 DEF NoLeak
  <1> QED
    BY <1>2, <1>6, <1>7, <1>8, <1>9, <1>15, <1>16, <1>17, <1>18

\* So it keeps the invariant, and what is owned.
LEMMA CollectKeeps ==
  ASSUME NEW m, NEW d, NEW e, Loose(m, d, e), NEW c, c = GarbageCollectSurfaces(m)
  PROVE  /\ Kept(c, d, e)
         /\ Waiting(c) \subseteq Waiting(m)
         /\ \A id \in Ids : m.surfaces[id].state = "owned" => Stays(m, c, id)
         /\ \A id \in Ids : Exists(c, id) => Exists(m, id)
         /\ \A id \in Ids : Gone(m, c, id) \/ Stays(m, c, id)
         /\ c.satisfied \subseteq m.satisfied
         /\ c.factory = m.factory /\ c.namespace_valid = m.namespace_valid
  <1>1. /\ m \in ManagerTypes /\ d \in DisplayTypes /\ e \in EmbedderTypes
        /\ Tidy(m) /\ ImportsKnown(d) /\ Accounted(m, d)
    BY DEF Loose
  <1>2. /\ c \in ManagerTypes
        /\ \A id \in Ids : Gone(m, c, id) \/ Stays(m, c, id)
        /\ \A id \in Ids : m.surfaces[id].dependencies \ Dropped(m) # {} => Stays(m, c, id)
        /\ \A id \in Ids : Exists(c, id) =>
             \A ref \in ReferencedSurfaces(m, id) : Exists(m, ref) => Exists(c, ref)
        /\ \A id \in Roots : c.surfaces[id].state # "destroyed"
        /\ c.satisfied \subseteq m.satisfied
        /\ c.namespace_valid = m.namespace_valid
        /\ c.factory = m.factory
        /\ Tidy(c) /\ Accounted(c, d) /\ NoLeak(c)
    BY <1>1, Collect
  <1>3. \A id \in Ids : m.surfaces[id].state = "owned" => Stays(m, c, id)
    BY <1>2 DEF Gone
  <1>4. OwnersInOrder(c, e)
    <2>1. \A id \in Ids : c.surfaces[id].state = "owned" <=> m.surfaces[id].state = "owned"
      BY <1>2 DEF Gone, Stays
    <2> QED
      BY <1>2, <2>1 DEF Loose, OwnersInOrder, Ids
  <1>5. SequencesInOrder(c, e)
    BY <1>2 DEF Loose, SequencesInOrder
  <1>6. TreeHeld(c, e)
    <2>1. CASE ~e.alive
      BY <2>1 DEF Loose, SequencesInOrder, TreeHeld
    <2>2. CASE e.alive
      <3>1. Dropped(m) = m.satisfied
        BY <2>2 DEF Loose, SequencesInOrder, Dropped
      <3>2. ASSUME NEW n \in e.promises \cup {e.sequence}, NEW id \in Children,
                   n \in m.surfaces[id].dependencies
            PROVE  n \in c.surfaces[id].dependencies
        <4>1. n \notin m.satisfied
          BY <3>2 DEF Loose, SequencesInOrder
        <4> QED
          BY <1>2, <3>1, <3>2, <4>1 DEF Ids, Stays
      <3>3. e.shown \in Children \cup {NoSurface} /\ e.tree \in Children \cup {NoSurface}
        BY <1>1 DEF EmbedderTypes
      <3> QED
        BY <3>2, <3>3 DEF Loose, TreeHeld
    <2> QED
      BY <2>1, <2>2
  <1>7. EmbeddedExists(c, e)
    <2>1. SUFFICES ASSUME e.surface # NoSurface,
                          NEW ref \in ReferencedSurfaces(c, e.surface), ~e.broken
                   PROVE  Exists(c, ref)
      BY DEF EmbeddedExists
    <2>2. e.surface \in Ids /\ m.surfaces[e.surface].state = "owned"
      BY <1>1, <2>1 DEF Loose, OwnersInOrder, EmbedderTypes, Ids
    <2>3. Stays(m, c, e.surface) /\ Exists(c, e.surface)
      BY <1>3, <2>2 DEF Exists, Stays
    <2>4. ref \in ReferencedSurfaces(m, e.surface)
      BY <2>1, <2>3 DEF ReferencedSurfaces, Stays
    <2>5. Exists(m, ref)
      BY <2>1, <2>4 DEF Loose, EmbeddedExists
    <2> QED
      BY <1>2, <2>2, <2>3, <2>4, <2>5
  <1>8. Waiting(c) \subseteq Waiting(m)
    BY <1>2 DEF Waiting, Gone, Stays
  <1>9. \A id \in Ids : Exists(c, id) => Exists(m, id)
    BY <1>2 DEF Exists, Gone, Stays
  <1> QED
    BY <1>1, <1>2, <1>3, <1>4, <1>5, <1>6, <1>7, <1>8, <1>9 DEF Kept, Loose

-----------------------------------------------------------------------------
(* Assignments to one surface, or to one member of the manager.            *)

\* Nothing changes but one surface.
OnlySurface(m, c, id) ==
  /\ \A other \in Ids \ {id} : c.surfaces[other] = m.surfaces[other]
  /\ c.satisfied = m.satisfied
  /\ c.namespace_valid = m.namespace_valid
  /\ c.factory = m.factory
  /\ c.received = m.received /\ c.alive = m.alive /\ c.in_flight = m.in_flight

WithState(m, id, state) == [m EXCEPT !.surfaces[id].state = state]
WithFrame(m, id, frame) == [m EXCEPT !.surfaces[id].frame = frame]
WithCallback(m, id, callback) == [m EXCEPT !.surfaces[id].callback = callback]
WithSatisfied(m, sequences) == [m EXCEPT !.satisfied = @ \cup sequences]
WithoutNamespace(m) == [m EXCEPT !.namespace_valid = FALSE]

LEMMA SetState ==
  ASSUME NEW m \in ManagerTypes, NEW id \in Ids,
         NEW state \in {"none", "owned", "destroyed", "deleted"},
         NEW c, c = WithState(m, id, state)
  PROVE  /\ c \in ManagerTypes
         /\ OnlySurface(m, c, id)
         /\ c.surfaces[id].state = state
         /\ c.surfaces[id].frame = m.surfaces[id].frame
         /\ c.surfaces[id].callback = m.surfaces[id].callback
         /\ c.surfaces[id].dependencies = m.surfaces[id].dependencies
  BY DEF ManagerTypes, SurfaceTypes, OnlySurface, WithState

LEMMA SetSurfaceFrame ==
  ASSUME NEW m \in ManagerTypes, NEW id \in Ids, NEW frame \in Frames \cup {NoFrame},
         NEW c, c = WithFrame(m, id, frame)
  PROVE  /\ c \in ManagerTypes
         /\ OnlySurface(m, c, id)
         /\ c.surfaces[id].frame = frame
         /\ c.surfaces[id].state = m.surfaces[id].state
         /\ c.surfaces[id].callback = m.surfaces[id].callback
         /\ c.surfaces[id].dependencies = m.surfaces[id].dependencies
  BY DEF ManagerTypes, SurfaceTypes, OnlySurface, WithFrame

LEMMA SetCallback ==
  ASSUME NEW m \in ManagerTypes, NEW id \in Ids, NEW callback \in BOOLEAN,
         NEW c, c = WithCallback(m, id, callback)
  PROVE  /\ c \in ManagerTypes
         /\ OnlySurface(m, c, id)
         /\ c.surfaces[id].callback = callback
         /\ c.surfaces[id].state = m.surfaces[id].state
         /\ c.surfaces[id].frame = m.surfaces[id].frame
         /\ c.surfaces[id].dependencies = m.surfaces[id].dependencies
  BY DEF ManagerTypes, SurfaceTypes, OnlySurface, WithCallback

LEMMA SetDependency ==
  ASSUME NEW m \in ManagerTypes, NEW id \in Ids, NEW sequence \in Sequences,
         NEW c, c = AddDestructionDependency(m, id, sequence)
  PROVE  /\ c \in ManagerTypes
         /\ OnlySurface(m, c, id)
         /\ c.surfaces[id].dependencies = m.surfaces[id].dependencies \cup {sequence}
         /\ c.surfaces[id].state = m.surfaces[id].state
         /\ c.surfaces[id].frame = m.surfaces[id].frame
         /\ c.surfaces[id].callback = m.surfaces[id].callback
  BY DEF ManagerTypes, SurfaceTypes, OnlySurface, AddDestructionDependency

LEMMA SetSatisfied ==
  ASSUME NEW m \in ManagerTypes, NEW sequences \in SUBSET Sequences,
         NEW c, c = WithSatisfied(m, sequences)
  PROVE  /\ c \in ManagerTypes
         /\ c.satisfied = m.satisfied \cup sequences
         /\ c.surfaces = m.surfaces
         /\ c.namespace_valid = m.namespace_valid
         /\ c.factory = m.factory
         /\ c.received = m.received /\ c.alive = m.alive /\ c.in_flight = m.in_flight
  BY DEF ManagerTypes, WithSatisfied

LEMMA SetNamespace ==
  ASSUME NEW m \in ManagerTypes, NEW c, c = WithoutNamespace(m)
  PROVE  /\ c \in ManagerTypes
         /\ ~c.namespace_valid
         /\ c.surfaces = m.surfaces
         /\ c.satisfied = m.satisfied
         /\ c.factory = m.factory
         /\ c.received = m.received /\ c.alive = m.alive /\ c.in_flight = m.in_flight
  BY DEF ManagerTypes, WithoutNamespace

LEMMA RunCallbacks ==
  ASSUME NEW m \in ManagerTypes, NEW ids \in SUBSET Ids, NEW c, c = RunDrawCallbacks(m, ids)
  PROVE  /\ c \in ManagerTypes
         /\ \A id \in Ids :
              /\ c.surfaces[id].state = m.surfaces[id].state
              /\ c.surfaces[id].frame = m.surfaces[id].frame
              /\ c.surfaces[id].dependencies = m.surfaces[id].dependencies
         /\ Waiting(c) = Waiting(m) \ ids
         /\ c.satisfied = m.satisfied
         /\ c.namespace_valid = m.namespace_valid
         /\ c.factory = m.factory
         /\ c.received = m.received /\ c.alive = m.alive /\ c.in_flight = m.in_flight
  <1> DEFINE surfaces == [id \in Ids |->
                           [m.surfaces[id] EXCEPT !.callback = @ /\ id \notin ids]]
  <1>1. \A id \in Ids :
          LET surface == [m.surfaces[id] EXCEPT !.callback = @ /\ id \notin ids]
          IN /\ surface \in SurfaceTypes
             /\ surface.state = m.surfaces[id].state
             /\ surface.frame = m.surfaces[id].frame
             /\ surface.callback = (m.surfaces[id].callback /\ id \notin ids)
             /\ surface.dependencies = m.surfaces[id].dependencies
    BY DEF ManagerTypes, SurfaceTypes
  <1>2. surfaces \in [Ids -> SurfaceTypes] /\ \A id \in Ids :
          /\ surfaces[id].state = m.surfaces[id].state
          /\ surfaces[id].frame = m.surfaces[id].frame
          /\ surfaces[id].callback = (m.surfaces[id].callback /\ id \notin ids)
          /\ surfaces[id].dependencies = m.surfaces[id].dependencies
    BY <1>1
  <1>3. c = [m EXCEPT !.surfaces = surfaces]
    BY DEF RunDrawCallbacks
  <1> HIDE DEF surfaces
  <1>4. /\ c \in ManagerTypes
        /\ c.surfaces = surfaces
        /\ c.satisfied = m.satisfied
        /\ c.namespace_valid = m.namespace_valid
        /\ c.factory = m.factory
        /\ c.received = m.received /\ c.alive = m.alive /\ c.in_flight = m.in_flight
    BY <1>2, <1>3 DEF ManagerTypes
  <1> QED
    BY <1>2, <1>4 DEF Waiting

-----------------------------------------------------------------------------
(* What runs callbacks or moves references, and leaves the surfaces alone. *)

SameButCallbacks(m, c) ==
  /\ \A id \in Ids :
       /\ c.surfaces[id].state = m.surfaces[id].state
       /\ c.surfaces[id].frame = m.surfaces[id].frame
       /\ c.surfaces[id].dependencies = m.surfaces[id].dependencies
  /\ Waiting(c) \subseteq Waiting(m)
  /\ c.satisfied = m.satisfied
  /\ c.namespace_valid = m.namespace_valid
  /\ \/ c.factory = m.factory
     \/ \A id \in Children : m.surfaces[id].state # "owned"

\* Counts and callbacks may change under the rest of the invariant.
LEMMA StillKept ==
  ASSUME NEW m, NEW d, NEW e, Kept(m, d, e),
         NEW c \in ManagerTypes, NEW f \in DisplayTypes,
         SameButCallbacks(m, c), ImportsKnown(f), Accounted(c, f)
  PROVE  /\ Kept(c, f, e)
         /\ \A id : HasFrame(c, id) <=> HasFrame(m, id)
  <1>1. m \in ManagerTypes /\ e \in EmbedderTypes
    BY DEF Kept, Loose
  <1>2. \A id : /\ Exists(c, id) <=> Exists(m, id)
                /\ HasFrame(c, id) <=> HasFrame(m, id)
    BY DEF SameButCallbacks, Exists, HasFrame
  <1>3. \A id \in Ids : ReferencedSurfaces(c, id) = ReferencedSurfaces(m, id)
    BY DEF SameButCallbacks, ReferencedSurfaces
  <1>4. Tidy(c)
    BY <1>2 DEF Kept, Loose, Tidy, SameButCallbacks, Waiting, Ids
  <1>5. OwnersInOrder(c, e) /\ SequencesInOrder(c, e)
    BY DEF Kept, Loose, OwnersInOrder, SequencesInOrder, SameButCallbacks, Ids
  <1>6. TreeHeld(c, e)
    BY <1>1 DEF Kept, Loose, TreeHeld, SameButCallbacks, EmbedderTypes, Ids
  <1>7. EmbeddedExists(c, e)
    BY <1>1, <1>2, <1>3 DEF Kept, Loose, EmbeddedExists, EmbedderTypes, Ids
  <1>8. NoLeak(c)
    <2>1. GCRoots(m) \subseteq GCRoots(c)
      BY <1>2 DEF GCRoots, SameButCallbacks
    <2>2. \A id \in LiveSurfaces(m) : id \in Ids
      BY ReachedByAll DEF LiveSurfaces, Reached
    <2>3. LiveSurfaces(m) \subseteq LiveSurfaces(c)
      BY <1>1, <1>2, <1>3, <2>1, <2>2, LiveGrows
    <2> QED
      BY <2>3 DEF Kept, NoLeak, SameButCallbacks
  <1>9. \A id \in Roots : c.surfaces[id].state # "destroyed"
    BY DEF Kept, SameButCallbacks, Ids
  <1> QED
    BY <1>1, <1>2, <1>4, <1>5, <1>6, <1>7, <1>8, <1>9 DEF Kept, Loose

\* Only frames and imports count.
LEMMA SameUses ==
  ASSUME NEW m, NEW c, NEW d, Accounted(m, d),
         \A id \in Children : c.surfaces[id].frame = m.surfaces[id].frame,
         c.factory = m.factory,
         c.received = m.received, c.alive = m.alive, c.in_flight = m.in_flight
  PROVE  Accounted(c, d)
  <1>1. \A r : Users(c, r) = Users(m, r)
    BY DEF Users
  <1>2. Uses(c, d) = Uses(m, d)
    BY <1>1 DEF Uses
  <1> QED
    BY <1>2 DEF Accounted, Counted

\* Running draw callbacks does.
LEMMA SkipKept ==
  ASSUME NEW m, NEW d, NEW e, Kept(m, d, e), NEW ids \in SUBSET Ids,
         NEW c, c = RunDrawCallbacks(m, ids)
  PROVE  /\ Kept(c, d, e)
         /\ \A id : HasFrame(c, id) <=> HasFrame(m, id)
         /\ Waiting(c) = Waiting(m) \ ids
         /\ SameButCallbacks(m, c)
  <1>1. m \in ManagerTypes /\ d \in DisplayTypes /\ ImportsKnown(d) /\ Accounted(m, d)
    BY DEF Kept, Loose
  <1>2. /\ c \in ManagerTypes
        /\ \A id \in Ids :
             /\ c.surfaces[id].state = m.surfaces[id].state
             /\ c.surfaces[id].frame = m.surfaces[id].frame
             /\ c.surfaces[id].dependencies = m.surfaces[id].dependencies
        /\ Waiting(c) = Waiting(m) \ ids
        /\ c.satisfied = m.satisfied
        /\ c.namespace_valid = m.namespace_valid
        /\ c.factory = m.factory
        /\ c.received = m.received /\ c.alive = m.alive /\ c.in_flight = m.in_flight
    BY <1>1, RunCallbacks
  <1>3. SameButCallbacks(m, c)
    BY <1>2 DEF SameButCallbacks
  <1>4. Accounted(c, d)
    BY <1>1, <1>2, SameUses DEF Ids
  <1> QED
    BY <1>1, <1>2, <1>3, <1>4, StillKept

\* A resource that is forgotten is given back.
LEMMA Release ==
  ASSUME NEW m \in ManagerTypes, NEW d \in DisplayTypes, ImportsKnown(d), Accounted(m, d),
         NEW ids \in SUBSET Ids,
         NEW c, c = DestroyChildren(m, d, ids), NEW f, f = Forget(d, ids)
  PROVE  /\ c \in ManagerTypes
         /\ SameSurfaces(m, c)
         /\ f \in DisplayTypes
         /\ f.root = d.root /\ f.locked = d.locked /\ f.needs_draw = d.needs_draw
         /\ f.previous = d.previous
         /\ f.children = d.children \ ids
         /\ ImportsKnown(f)
         /\ Accounted(c, f)
  <1> DEFINE imported == [id \in Children |->
                           IF id \in ids THEN [r \in Resources |-> 0] ELSE d.imported[id]]
             Its(r) == Imports(d, ids \cap d.children, r)
             counts == [r \in Resources |-> Cardinality(Its(r))]
  <1>1. imported \in [Children -> [Resources -> Nat]]
    BY DEF DisplayTypes
  <1>2. f = [d EXCEPT !.children = @ \ ids, !.imported = imported]
    BY DEF Forget
  <1>3. /\ f \in DisplayTypes
        /\ f.root = d.root /\ f.locked = d.locked /\ f.needs_draw = d.needs_draw
        /\ f.previous = d.previous
        /\ f.children = d.children \ ids
        /\ f.imported = imported
    <2> HIDE DEF imported
    <2> QED
      BY <1>1, <1>2 DEF DisplayTypes
  <1>4. ImportsKnown(f)
    BY <1>3, Constants DEF ImportsKnown
  <1>5. \A r \in Resources : /\ Its(r) \subseteq Imports(d, Children, r)
                             /\ Imports(f, Children, r) = Imports(d, Children, r) \ Its(r)
    <2> SUFFICES ASSUME NEW r \in Resources
                 PROVE  /\ Its(r) \subseteq Imports(d, Children, r)
                        /\ Imports(f, Children, r) = Imports(d, Children, r) \ Its(r)
      OBVIOUS
    <2>1. \A id \in Children, n \in 1 .. MaxImports :
            /\ <<id, n>> \in Imports(d, Children, r) <=> n <= d.imported[id][r]
            /\ <<id, n>> \in Imports(f, Children, r) <=> n <= f.imported[id][r]
            /\ <<id, n>> \in Its(r) <=> id \in ids \cap d.children /\ n <= d.imported[id][r]
      BY DEF Imports
    <2>2. \A id \in Children, n \in 1 .. MaxImports :
            n <= f.imported[id][r] <=> id \notin ids /\ n <= d.imported[id][r]
      BY <1>3, Constants DEF DisplayTypes
    <2>3. \A id \in Children, n \in 1 .. MaxImports : n <= d.imported[id][r] => id \in d.children
      BY Constants DEF ImportsKnown, DisplayTypes
    <2>4. /\ Imports(d, Children, r) \subseteq Children \X (1 .. MaxImports)
          /\ Imports(f, Children, r) \subseteq Children \X (1 .. MaxImports)
          /\ Its(r) \subseteq Children \X (1 .. MaxImports)
      BY DEF Imports
    <2> HIDE DEF Its
    <2> QED
      BY <2>1, <2>2, <2>3, <2>4
  <1>6. \A r \in Resources :
          /\ Cardinality(Its(r)) \in Nat
          /\ Cardinality(Its(r)) <= Cardinality(Imports(d, Children, r))
          /\ Cardinality(Imports(f, Children, r))
               = Cardinality(Imports(d, Children, r)) - Cardinality(Its(r))
    <2> SUFFICES ASSUME NEW r \in Resources
                 PROVE  /\ Cardinality(Its(r)) \in Nat
                        /\ Cardinality(Its(r)) <= Cardinality(Imports(d, Children, r))
                        /\ Cardinality(Imports(f, Children, r))
                             = Cardinality(Imports(d, Children, r)) - Cardinality(Its(r))
      OBVIOUS
    <2> HIDE DEF Its
    <2> QED
      BY <1>5, Imports_, Without
  <1>7. \A r \in Resources :
          /\ Uses(m, d)[r] = Cardinality(Users(m, r)) + Cardinality(Imports(d, Children, r))
          /\ Uses(m, f)[r] = Cardinality(Users(m, r)) + Cardinality(Imports(f, Children, r))
          /\ Cardinality(Users(m, r)) \in Nat /\ Cardinality(Imports(d, Children, r)) \in Nat
    BY Users_, Imports_ DEF Uses
  <1>8. \A r \in Resources : /\ counts[r] \in Nat /\ counts[r] <= Uses(m, d)[r]
                             /\ Uses(m, f)[r] = Uses(m, d)[r] - counts[r]
    <2> HIDE DEF Its
    <2> QED
      BY <1>6, <1>7
  <1>9. /\ c \in ManagerTypes
        /\ SameSurfaces(m, c)
        /\ Counted(c, [r \in Resources |-> Uses(m, d)[r] - counts[r]])
    <2>1. c = UnrefResources(m, counts)
      BY DEF DestroyChildren
    <2>2. counts \in [Resources -> Nat] /\ \A r \in Resources : counts[r] <= Uses(m, d)[r]
      BY <1>8
    <2> HIDE DEF counts
    <2> QED
      BY <2>1, <2>2, UsesType, Unref DEF Accounted
  <1>10. Accounted(c, f)
    <2>1. Uses(c, f) = Uses(m, f)
      BY <1>9 DEF Uses, Users, SameSurfaces
    <2> HIDE DEF counts
    <2> QED
      BY <1>8, <1>9, <2>1 DEF Accounted, Counted
  <1> QED
    BY <1>3, <1>4, <1>9, <1>10

-----------------------------------------------------------------------------
(* Surface::QueueFrame and SurfaceFactory::SubmitCompositorFrame.          *)

\* A child that changes its frame changes its uses.
LEMMA UsersChange ==
  ASSUME NEW m, NEW c, NEW id \in Ids, NEW r \in Resources,
         NEW old, old = ResourcesIn(m.surfaces[id].frame),
         NEW new, new = ResourcesIn(c.surfaces[id].frame),
         \A other \in Ids \ {id} : c.surfaces[other] = m.surfaces[other],
         id \in Roots => old = {} /\ new = {}
  PROVE  /\ Cardinality(Users(c, r))
              = (Cardinality(Users(m, r)) + OnceEach(new)[r]) - OnceEach(old)[r]
         /\ OnceEach(old)[r] <= Cardinality(Users(m, r))
  <1>1. /\ OnceEach(old)[r] = IF r \in old THEN 1 ELSE 0
        /\ OnceEach(new)[r] = IF r \in new THEN 1 ELSE 0
    BY DEF OnceEach
  <1>2. /\ IsFiniteSet(Users(m, r)) /\ Cardinality(Users(m, r)) \in Nat
        /\ IsFiniteSet(Users(c, r)) /\ Cardinality(Users(c, r)) \in Nat
    BY Users_
  <1>3. CASE id \in Roots
    <2>1. Users(c, r) = Users(m, r)
      BY <1>3, Constants DEF Users, Ids
    <2> QED
      BY <1>1, <1>2, <1>3, <2>1
  <1>4. CASE id \in Children
    <2>1. /\ id \in Users(m, r) <=> r \in old
          /\ id \in Users(c, r) <=> r \in new
          /\ Users(c, r) \ {id} = Users(m, r) \ {id}
      BY <1>4 DEF Users, Ids
    <2>2. /\ Cardinality(Users(m, r) \ {id})
               = IF r \in old THEN Cardinality(Users(m, r)) - 1 ELSE Cardinality(Users(m, r))
          /\ Cardinality(Users(c, r) \ {id})
               = IF r \in new THEN Cardinality(Users(c, r)) - 1 ELSE Cardinality(Users(c, r))
      BY <1>2, <2>1, FS_RemoveElement
    <2>3. Cardinality(Users(c, r) \ {id}) = Cardinality(Users(m, r) \ {id})
      BY <2>1
    <2> DEFINE others == Cardinality(Users(m, r) \ {id})
    <2>4. /\ others = IF r \in old THEN Cardinality(Users(m, r)) - 1 ELSE Cardinality(Users(m, r))
          /\ others = IF r \in new THEN Cardinality(Users(c, r)) - 1 ELSE Cardinality(Users(c, r))
      BY <2>2, <2>3
    <2>5. others \in Nat
      BY <1>2, FS_RemoveElement, FS_CardinalityType
    <2> HIDE DEF others
    <2> QED
      BY <1>1, <1>2, <2>4, <2>5
  <1> QED
    BY <1>3, <1>4 DEF Ids

\* ReplaceFrame keeps the counts exact and changes one surface.
LEMMA Replace ==
  ASSUME NEW m \in ManagerTypes, NEW d, Tidy(m), Accounted(m, d),
         NEW id \in Ids, NEW frame \in Frames \cup {NoFrame}, NEW callback \in BOOLEAN,
         id \in Roots => ResourcesIn(frame) = {},
         NEW c, c = WithCallback(ReplaceFrame(m, id, frame), id, callback)
  PROVE  /\ c \in ManagerTypes
         /\ \A other \in Ids \ {id} : c.surfaces[other] = m.surfaces[other]
         /\ c.surfaces[id].frame = frame
         /\ c.surfaces[id].callback = callback
         /\ c.surfaces[id].state = m.surfaces[id].state
         /\ c.surfaces[id].dependencies = m.surfaces[id].dependencies
         /\ c.satisfied = m.satisfied
         /\ c.namespace_valid = m.namespace_valid
         /\ c.factory = m.factory
         /\ Accounted(c, d)
  <1> DEFINE new == ResourcesIn(frame)
             old == ResourcesIn(m.surfaces[id].frame)
             received == ReceiveFromChild(m, new)
             unref == UnrefResources(received, OnceEach(old))
             framed == WithFrame(unref, id, frame)
             with == [r \in Resources |-> Uses(m, d)[r] + OnceEach(new)[r]]
  <1>1. new \in SUBSET Resources
    BY Constants DEF ResourcesIn, Frames
  <1>2. /\ received \in ManagerTypes
        /\ SameSurfaces(m, received)
        /\ Counted(received, with)
    <2> HIDE DEF new
    <2> QED
      BY <1>1, UsesType, Receive DEF Accounted
  <1>3. \A r \in Resources :
          /\ Uses(m, d)[r] = Cardinality(Users(m, r)) + Cardinality(Imports(d, Children, r))
          /\ Cardinality(Users(m, r)) \in Nat /\ Cardinality(Imports(d, Children, r)) \in Nat
          /\ OnceEach(new)[r] \in Nat /\ OnceEach(old)[r] \in Nat
    BY Users_, Imports_, OnceEachType DEF Uses
  <1>4. id \in Roots => old = {} /\ new = {}
    BY DEF Tidy
  <1>5. \A r \in Resources : OnceEach(old)[r] <= Cardinality(Users(m, r))
    <2> SUFFICES ASSUME NEW r \in Resources PROVE OnceEach(old)[r] <= Cardinality(Users(m, r))
      OBVIOUS
    <2>1. id \in Roots => old = {} /\ old = {}
      BY <1>4
    <2> HIDE DEF old
    <2>2. old = ResourcesIn(m.surfaces[id].frame)
      BY DEF old
    <2> QED
      BY <2>1, <2>2, UsersChange
  <1>6. /\ unref \in ManagerTypes
        /\ SameSurfaces(received, unref)
        /\ Counted(unref, [r \in Resources |-> with[r] - OnceEach(old)[r]])
    <2>1. with \in [Resources -> Nat] /\ \A r \in Resources : OnceEach(old)[r] <= with[r]
      <3> HIDE DEF new, old
      <3> QED
        BY <1>3, <1>5
    <2>2. OnceEach(old) \in [Resources -> Nat]
      BY OnceEachType
    <2> HIDE DEF received, with, old
    <2> QED
      BY <1>2, <2>1, <2>2, Unref
  <1>7. c = WithCallback(framed, id, callback)
    BY DEF ReplaceFrame, WithFrame
  <1>8. /\ framed \in ManagerTypes
        /\ OnlySurface(unref, framed, id)
        /\ framed.surfaces[id].frame = frame
        /\ framed.surfaces[id].state = unref.surfaces[id].state
        /\ framed.surfaces[id].callback = unref.surfaces[id].callback
        /\ framed.surfaces[id].dependencies = unref.surfaces[id].dependencies
    <2> HIDE DEF unref
    <2> QED
      BY <1>6, SetSurfaceFrame
  <1>9. /\ c \in ManagerTypes
        /\ OnlySurface(framed, c, id)
        /\ c.surfaces[id].callback = callback
        /\ c.surfaces[id].state = framed.surfaces[id].state
        /\ c.surfaces[id].frame = framed.surfaces[id].frame
        /\ c.surfaces[id].dependencies = framed.surfaces[id].dependencies
    <2> HIDE DEF framed
    <2> QED
      BY <1>7, <1>8, SetCallback
  <1>10. /\ \A other \in Ids \ {id} : c.surfaces[other] = m.surfaces[other]
         /\ c.surfaces[id].frame = frame
         /\ c.surfaces[id].state = m.surfaces[id].state
         /\ c.surfaces[id].dependencies = m.surfaces[id].dependencies
         /\ c.satisfied = m.satisfied
         /\ c.namespace_valid = m.namespace_valid
         /\ c.factory = m.factory
         /\ c.received = unref.received /\ c.alive = unref.alive
         /\ c.in_flight = unref.in_flight
    <2> HIDE DEF framed, unref, received
    <2> QED
      BY <1>2, <1>6, <1>8, <1>9 DEF SameSurfaces, OnlySurface
  <1>11. \A r \in Resources : Uses(c, d)[r] = with[r] - OnceEach(old)[r]
    <2> SUFFICES ASSUME NEW r \in Resources PROVE Uses(c, d)[r] = with[r] - OnceEach(old)[r]
      OBVIOUS
    <2>1. Cardinality(Users(c, r))
            = (Cardinality(Users(m, r)) + OnceEach(new)[r]) - OnceEach(old)[r]
      <3> HIDE DEF new, old
      <3>1. old = ResourcesIn(m.surfaces[id].frame) /\ new = ResourcesIn(c.surfaces[id].frame)
        BY <1>10 DEF new, old
      <3>2. \A other \in Ids \ {id} : c.surfaces[other] = m.surfaces[other]
        BY <1>10
      <3> QED
        BY <1>4, <3>1, <3>2, UsersChange
    <2>2. Uses(c, d)[r] = Cardinality(Users(c, r)) + Cardinality(Imports(d, Children, r))
      BY DEF Uses
    <2> HIDE DEF new, old
    <2> QED
      BY <1>3, <2>1, <2>2
  <1>12. Accounted(c, d)
    <2> HIDE DEF with, old, unref, received
    <2> QED
      BY <1>2, <1>6, <1>10, <1>11 DEF Accounted, Counted, SameSurfaces
  <1> QED
    BY <1>9, <1>10, <1>12

\* Surface::QueueFrame, with the collection it may cause.
LEMMA QueueKeeps ==
  ASSUME NEW m, NEW d, NEW e, Kept(m, d, e),
         NEW id \in Ids, m.surfaces[id].state = "owned",
         NEW frame \in Frames \cup {NoFrame}, NEW callback \in BOOLEAN,
         id \in Roots => ResourcesIn(frame) = {},
         NEW sequences \in SUBSET e.tree_promises,
         id = e.surface /\ frame # NoFrame =>
           \A ref \in frame.refs : Exists(m, ref) \/ e.broken,
         NEW c, c = QueueFrame(m, id, frame, callback, sequences)
  PROVE  /\ Kept(c, d, e)
         /\ c.surfaces[id].frame = frame
         /\ \A other \in Ids : m.surfaces[other].state = "owned" =>
              /\ c.surfaces[other].state = "owned"
              /\ other # id => c.surfaces[other].frame = m.surfaces[other].frame
         /\ Waiting(c) \subseteq Waiting(m) \cup {id}
  <1> DEFINE r == WithCallback(ReplaceFrame(m, id, frame), id, callback)
             s == WithSatisfied(r, sequences)
  <1>1. /\ m \in ManagerTypes /\ d \in DisplayTypes /\ e \in EmbedderTypes
        /\ Tidy(m) /\ ImportsKnown(d) /\ Accounted(m, d)
        /\ OwnersInOrder(m, e) /\ SequencesInOrder(m, e) /\ TreeHeld(m, e)
        /\ EmbeddedExists(m, e)
        /\ NoLeak(m) /\ \A root \in Roots : m.surfaces[root].state # "destroyed"
    BY DEF Kept, Loose
  <1>2. /\ r \in ManagerTypes
        /\ \A other \in Ids \ {id} : r.surfaces[other] = m.surfaces[other]
        /\ r.surfaces[id].frame = frame
        /\ r.surfaces[id].callback = callback
        /\ r.surfaces[id].state = m.surfaces[id].state
        /\ r.surfaces[id].dependencies = m.surfaces[id].dependencies
        /\ r.satisfied = m.satisfied
        /\ r.namespace_valid = m.namespace_valid
        /\ r.factory = m.factory
        /\ Accounted(r, d)
    BY <1>1, Replace
  <1> HIDE DEF r
  <1>3. \A other : Exists(r, other) <=> Exists(m, other)
    BY <1>2 DEF Exists
  <1>4. Tidy(r)
    BY <1>1, <1>2, <1>3 DEF Tidy, Ids, Exists
  <1>5. OwnersInOrder(r, e)
    BY <1>1, <1>2 DEF OwnersInOrder, Ids
  <1>6. SequencesInOrder(r, e)
    BY <1>1, <1>2 DEF SequencesInOrder
  <1>7. TreeHeld(r, e)
    <2>1. \A other \in Ids : r.surfaces[other].dependencies = m.surfaces[other].dependencies
      BY <1>2
    <2> QED
      BY <1>1, <2>1 DEF TreeHeld, EmbedderTypes, Ids
  <1>8. EmbeddedExists(r, e)
    BY <1>1, <1>2, <1>3 DEF EmbeddedExists, ReferencedSurfaces, EmbedderTypes, Ids
  <1>9. Loose(r, d, e)
    BY <1>1, <1>2, <1>4, <1>5, <1>6, <1>7, <1>8 DEF Loose
  <1>10. Waiting(r) \subseteq Waiting(m) \cup {id}
    BY <1>2 DEF Waiting
  <1>11. CASE NeedsCollection(m, id, frame, sequences)
    <2>1. c = GarbageCollectSurfaces(s)
      BY <1>11 DEF QueueFrame, DidSatisfySequences, WithSatisfied, WithCallback, r
    <2>2. sequences \in SUBSET Sequences
      BY <1>1 DEF EmbedderTypes
    <2>3. /\ s \in ManagerTypes
          /\ s.satisfied = r.satisfied \cup sequences
          /\ s.surfaces = r.surfaces
          /\ s.namespace_valid = r.namespace_valid
          /\ s.factory = r.factory
          /\ s.received = r.received /\ s.alive = r.alive /\ s.in_flight = r.in_flight
      BY <1>2, <2>2, SetSatisfied
    <2> HIDE DEF s
    <2>4. Accounted(s, d)
      BY <1>2, <2>3, SameUses
    <2>5. /\ Tidy(s) /\ OwnersInOrder(s, e) /\ TreeHeld(s, e) /\ EmbeddedExists(s, e)
      BY <1>4, <1>5, <1>7, <1>8, <2>3
      DEF Tidy, OwnersInOrder, TreeHeld, EmbeddedExists, Exists, ReferencedSurfaces
    <2>6. SequencesInOrder(s, e)
      BY <1>6, <2>3 DEF SequencesInOrder
    <2>7. Loose(s, d, e)
      BY <1>1, <2>3, <2>4, <2>5, <2>6 DEF Loose
    <2>8. /\ Kept(c, d, e)
          /\ Waiting(c) \subseteq Waiting(s)
          /\ \A other \in Ids : s.surfaces[other].state = "owned" => Stays(s, c, other)
      BY <2>1, <2>7, CollectKeeps
    <2>9. Waiting(s) = Waiting(r)
      BY <2>3 DEF Waiting
    <2> QED
      BY <1>2, <1>10, <2>3, <2>8, <2>9 DEF Stays
  <1>12. CASE ~NeedsCollection(m, id, frame, sequences)
    <2>1. c = r
      BY <1>12 DEF QueueFrame, WithCallback, r
    <2>2. \A other \in Ids : ReferencedSurfaces(r, other) = ReferencedSurfaces(m, other)
      BY <1>2, <1>12 DEF NeedsCollection, ReferencedSurfaces
    <2>3. GCRoots(m) \subseteq GCRoots(r)
      BY <1>2, <1>3 DEF GCRoots
    <2>4. \A other \in LiveSurfaces(m) : other \in Ids
      BY ReachedByAll DEF LiveSurfaces, Reached
    <2>5. LiveSurfaces(m) \subseteq LiveSurfaces(r)
      BY <1>1, <1>2, <1>3, <2>2, <2>3, <2>4, LiveGrows
    <2>6. NoLeak(r)
      BY <1>1, <1>2, <2>5 DEF NoLeak
    <2>7. \A root \in Roots : r.surfaces[root].state # "destroyed"
      BY <1>1, <1>2 DEF Ids
    <2> QED
      BY <1>2, <1>9, <1>10, <2>1, <2>6, <2>7 DEF Kept
  <1> QED
    BY <1>11, <1>12

\* What a change of its flags leaves of the display.
WithFlags(d, locked, needs_draw) == [d EXCEPT !.needs_draw = needs_draw, !.locked = locked]

LEMMA SetFlags ==
  ASSUME NEW d \in DisplayTypes, NEW locked \in BOOLEAN, NEW needs_draw \in BOOLEAN,
         NEW f, f = WithFlags(d, locked, needs_draw)
  PROVE  /\ f \in DisplayTypes
         /\ f.locked = locked
         /\ f.root = d.root /\ f.previous = d.previous
         /\ f.children = d.children /\ f.imported = d.imported
  BY DEF DisplayTypes, WithFlags

\* Only imports count of the display.
LEMMA SameImports ==
  ASSUME NEW m, NEW d, NEW f, Accounted(m, d), ImportsKnown(d),
         f.imported = d.imported, f.children = d.children
  PROVE  Accounted(m, f) /\ ImportsKnown(f)
  <1>1. \A r : Imports(f, Children, r) = Imports(d, Children, r)
    BY DEF Imports
  <1>2. Uses(m, f) = Uses(m, d)
    BY <1>1 DEF Uses
  <1> QED
    BY <1>2 DEF Accounted, Counted, ImportsKnown

\* The root of the display is given a frame, or it has one if it must.
RootStays(m, d, id) ==
  \/ d.root = NoSurface
  \/ d.root = id
  \/ d.root \in Ids /\ m.surfaces[d.root].state = "owned" /\ RootHasFrame(m, d)

\* SurfaceFactory::SubmitCompositorFrame, with what the display does about it.
LEMMA SubmitKeeps ==
  ASSUME NEW m, NEW d, NEW e, Kept(m, d, e), Waiting(m) \subseteq d.previous \cup {d.root},
         NEW id \in Ids, m.surfaces[id].state = "owned",
         NEW frame \in Frames \cup {NoFrame}, NEW callback \in BOOLEAN,
         id \in Roots => ResourcesIn(frame) = {},
         NEW sequences \in SUBSET e.tree_promises,
         id = e.surface /\ frame # NoFrame =>
           \A ref \in frame.refs : Exists(m, ref) \/ e.broken,
         NEW s, s = Submit(m, d, id, frame, callback, sequences)
  PROVE  /\ Kept(s.m, s.d, e)
         /\ Waiting(s.m) \subseteq s.d.previous \cup {s.d.root}
         /\ s.d.root = d.root
         /\ s.m.surfaces[id].frame = frame
         /\ s.m.surfaces[id].state = "owned"
         /\ RootStays(m, d, id) => RootHasFrame(s.m, s.d)
  <1> DEFINE queued == QueueFrame(m, id, frame, callback, sequences)
             visible == id \in d.previous \/ id = d.root
             released == IF id \in d.previous /\ ResourcesIn(frame) = {} THEN {id} ELSE {}
             forgot == Forget(d, released)
             locked == IF id = d.root THEN RootLocked(queued, id) ELSE forgot.locked
             needs_draw == forgot.needs_draw \/ visible
             shown == WithFlags(forgot, locked, needs_draw)
             returned == DestroyChildren(queued, d, released)
             skipped == RunDrawCallbacks(queued, {id})
  <1>1. s.m = (IF visible THEN returned ELSE skipped) /\ s.d = shown
    BY DEF Submit, WithFlags
  <1>2. d \in DisplayTypes /\ ImportsKnown(d)
    BY DEF Kept, Loose
  <1>3. /\ Kept(queued, d, e)
        /\ queued.surfaces[id].frame = frame
        /\ \A other \in Ids : m.surfaces[other].state = "owned" =>
             /\ queued.surfaces[other].state = "owned"
             /\ other # id => queued.surfaces[other].frame = m.surfaces[other].frame
        /\ Waiting(queued) \subseteq Waiting(m) \cup {id}
    BY QueueKeeps
  <1> HIDE DEF queued
  <1>4. queued \in ManagerTypes /\ Accounted(queued, d)
    BY <1>3 DEF Kept, Loose
  <1>5. /\ returned \in ManagerTypes
        /\ SameSurfaces(queued, returned)
        /\ forgot \in DisplayTypes
        /\ forgot.root = d.root /\ forgot.locked = d.locked
        /\ forgot.previous = d.previous
        /\ ImportsKnown(forgot)
        /\ Accounted(returned, forgot)
    <2>1. released \in SUBSET Ids
      OBVIOUS
    <2> HIDE DEF released
    <2> QED
      BY <1>2, <1>4, <2>1, Release
  <1>6. /\ shown \in DisplayTypes
        /\ shown.locked = locked
        /\ shown.root = d.root /\ shown.previous = d.previous
        /\ shown.children = forgot.children /\ shown.imported = forgot.imported
    <2>1. locked \in BOOLEAN /\ needs_draw \in BOOLEAN
      BY <1>5 DEF RootLocked, DisplayTypes
    <2> HIDE DEF locked, needs_draw, forgot
    <2> QED
      BY <1>5, <2>1, SetFlags
  <1> HIDE DEF shown
  <1>7. CASE visible
    <2>1. SameButCallbacks(queued, returned) /\ Waiting(returned) = Waiting(queued)
      BY <1>5 DEF SameSurfaces, SameButCallbacks, Waiting
    <2>2. Accounted(returned, shown) /\ ImportsKnown(shown)
      <3> HIDE DEF returned, forgot
      <3> QED
        BY <1>5, <1>6, SameImports
    <2>3. /\ Kept(returned, shown, e)
          /\ \A other : HasFrame(returned, other) <=> HasFrame(queued, other)
      <3> HIDE DEF returned
      <3> QED
        BY <1>3, <1>5, <1>6, <2>1, <2>2, StillKept
    <2>4. returned.surfaces = queued.surfaces
      BY <1>5 DEF SameSurfaces
    <2>5. Waiting(returned) \subseteq d.previous \cup {d.root}
      BY <1>3, <1>7, <2>1
    <2>6. ASSUME RootStays(m, d, id) PROVE RootHasFrame(returned, shown)
      <3> SUFFICES ASSUME d.root # NoSurface, ~locked PROVE HasFrame(queued, d.root)
        BY <1>6, <2>3 DEF RootHasFrame
      <3> QED
        BY <1>3, <1>5, <2>6 DEF RootStays, RootLocked, RootHasFrame, HasFrame, Exists
    <2> QED
      BY <1>1, <1>3, <1>6, <1>7, <2>3, <2>4, <2>5, <2>6
  <1>8. CASE ~visible
    <2>1. /\ Kept(skipped, d, e)
          /\ \A other : HasFrame(skipped, other) <=> HasFrame(queued, other)
          /\ Waiting(skipped) = Waiting(queued) \ {id}
          /\ SameButCallbacks(queued, skipped)
      <3>1. {id} \in SUBSET Ids
        OBVIOUS
      <3> QED
        BY <1>3, <3>1, SkipKept
    <2>2. skipped \in ManagerTypes /\ Accounted(skipped, d)
      BY <2>1 DEF Kept, Loose
    <2>3. forgot.children = d.children /\ forgot.imported = d.imported
      BY <1>2, <1>8 DEF Forget, DisplayTypes
    <2>4. Accounted(skipped, shown) /\ ImportsKnown(shown)
      <3> HIDE DEF skipped, forgot
      <3> QED
        BY <1>2, <1>6, <2>2, <2>3, SameImports
    <2>5. SameButCallbacks(skipped, skipped)
      BY DEF SameButCallbacks
    <2>6. Kept(skipped, shown, e)
      <3> HIDE DEF skipped
      <3> QED
        BY <1>6, <2>1, <2>2, <2>4, <2>5, StillKept
    <2>7. /\ skipped.surfaces[id].frame = queued.surfaces[id].frame
          /\ skipped.surfaces[id].state = queued.surfaces[id].state
      BY <2>1 DEF SameButCallbacks
    <2>8. Waiting(skipped) \subseteq d.previous \cup {d.root}
      BY <1>3, <2>1
    <2>9. ASSUME RootStays(m, d, id) PROVE RootHasFrame(skipped, shown)
      <3> SUFFICES ASSUME d.root # NoSurface, ~locked PROVE HasFrame(queued, d.root)
        BY <1>6, <2>1 DEF RootHasFrame
      <3> QED
        BY <1>3, <1>5, <2>9 DEF RootStays, RootLocked, RootHasFrame, HasFrame, Exists
    <2> QED
      BY <1>1, <1>3, <1>6, <1>8, <2>6, <2>7, <2>8, <2>9
  <1> QED
    BY <1>7, <1>8

-----------------------------------------------------------------------------
(* The other operations of the manager.                                    *)

\* All of the embedder but its output surface.
SameTrees(e, f) ==
  /\ f.alive = e.alive
  /\ f.next_sequence = e.next_sequence
  /\ f.shown = e.shown /\ f.sequence = e.sequence /\ f.promises = e.promises
  /\ f.tree = e.tree /\ f.tree_promises = e.tree_promises
  /\ f.broken = e.broken

\* SurfaceFactory::Create.
LEMMA CreateKeeps ==
  ASSUME NEW m, NEW d, NEW e, Kept(m, d, e), NEW f \in EmbedderTypes, SameTrees(e, f),
         NEW id \in Ids, m.surfaces[id].state = "none",
         id \in Roots => e.surface = NoSurface /\ f.surface = id,
         id \in Children => m.factory /\ f.surface = e.surface,
         NEW c, c = Create(m, id)
  PROVE  /\ Kept(c, d, f)
         /\ c.surfaces[id].state = "owned"
         /\ \A other \in Ids : c.surfaces[other].frame = m.surfaces[other].frame
         /\ \A other \in Ids \ {id} : c.surfaces[other] = m.surfaces[other]
         /\ Waiting(c) = Waiting(m)
         /\ \A other : Exists(m, other) => Exists(c, other)
         /\ c.satisfied = m.satisfied
  <1>1. /\ m \in ManagerTypes /\ d \in DisplayTypes /\ e \in EmbedderTypes
        /\ Tidy(m) /\ ImportsKnown(d) /\ Accounted(m, d)
        /\ OwnersInOrder(m, e) /\ SequencesInOrder(m, e) /\ TreeHeld(m, e)
        /\ EmbeddedExists(m, e)
        /\ NoLeak(m) /\ \A root \in Roots : m.surfaces[root].state # "destroyed"
    BY DEF Kept, Loose
  <1>2. /\ c \in ManagerTypes
        /\ OnlySurface(m, c, id)
        /\ c.surfaces[id].state = "owned"
        /\ c.surfaces[id].frame = m.surfaces[id].frame
        /\ c.surfaces[id].callback = m.surfaces[id].callback
        /\ c.surfaces[id].dependencies = m.surfaces[id].dependencies
    <2> DEFINE s == WithState(m, id, "owned")
    <2>1. /\ s \in ManagerTypes
          /\ OnlySurface(m, s, id)
          /\ s.surfaces[id].state = "owned"
          /\ s.surfaces[id].frame = m.surfaces[id].frame
          /\ s.surfaces[id].callback = m.surfaces[id].callback
          /\ s.surfaces[id].dependencies = m.surfaces[id].dependencies
      BY <1>1, SetState
    <2>2. c = s
      BY DEF Create, WithState
    <2> HIDE DEF s
    <2> QED
      BY <2>1, <2>2
  <1>3. \A other \in Ids :
          /\ c.surfaces[other].frame = m.surfaces[other].frame
          /\ c.surfaces[other].callback = m.surfaces[other].callback
          /\ c.surfaces[other].dependencies = m.surfaces[other].dependencies
          /\ ReferencedSurfaces(c, other) = ReferencedSurfaces(m, other)
    BY <1>2 DEF OnlySurface, ReferencedSurfaces
  <1>4. ~Exists(m, id) /\ m.surfaces[id].frame = NoFrame
    BY <1>1 DEF Tidy, Exists
  <1>5. \A other : Exists(m, other) => Exists(c, other)
    BY <1>2 DEF OnlySurface, Exists
  <1>6. Tidy(c)
    BY <1>1, <1>3, <1>5 DEF Tidy, Ids
  <1>7. Accounted(c, d)
    BY <1>1, <1>2, <1>3, SameUses DEF OnlySurface, Ids
  <1>8. OwnersInOrder(c, f)
    BY <1>1, <1>2, Constants DEF OwnersInOrder, OnlySurface, Ids
  <1>9. SequencesInOrder(c, f)
    BY <1>1, <1>2 DEF SequencesInOrder, OnlySurface, SameTrees
  <1>10. TreeHeld(c, f)
    BY <1>1, <1>3 DEF TreeHeld, SameTrees, EmbedderTypes, Ids
  <1>11. EmbeddedExists(c, f)
    <2>1. ReferencedSurfaces(m, id) = {}
      BY <1>4 DEF ReferencedSurfaces
    <2>2. f.surface \in {id, e.surface}
      BY DEF Ids
    <2> QED
      BY <1>1, <1>3, <1>5, <2>1, <2>2 DEF EmbeddedExists, SameTrees, EmbedderTypes, Ids
  <1>12. NoLeak(c)
    <2>1. GCRoots(m) \subseteq GCRoots(c)
      BY <1>2, <1>4, <1>5 DEF GCRoots, OnlySurface, Exists
    <2>2. \A other \in LiveSurfaces(m) : other \in Ids
      BY ReachedByAll DEF LiveSurfaces, Reached
    <2>3. LiveSurfaces(m) \subseteq LiveSurfaces(c)
      BY <1>1, <1>2, <1>3, <1>5, <2>1, <2>2, LiveGrows
    <2> QED
      BY <1>1, <1>2, <2>3 DEF NoLeak, OnlySurface
  <1>13. \A root \in Roots : c.surfaces[root].state # "destroyed"
    BY <1>1, <1>2 DEF OnlySurface, Ids
  <1> QED
    BY <1>1, <1>2, <1>3, <1>5, <1>6, <1>7, <1>8, <1>9, <1>10, <1>11, <1>12, <1>13
    DEF Kept, Loose, Waiting, OnlySurface

\* SurfaceFactory::Destroy, with the collection.
LEMMA DestroyKeeps ==
  ASSUME NEW m, NEW d, NEW e, Kept(m, d, e), NEW f \in EmbedderTypes, SameTrees(e, f),
         NEW id \in Ids, m.surfaces[id].state = "owned",
         f.surface = IF id = e.surface THEN NoSurface ELSE e.surface,
         NEW c, c = Destroy(m, id)
  PROVE  /\ Kept(c, d, f)
         /\ \A other \in Ids \ {id} : m.surfaces[other].state # "destroyed" =>
              /\ c.surfaces[other].state = m.surfaces[other].state
              /\ c.surfaces[other].frame = m.surfaces[other].frame
         /\ Waiting(c) \subseteq Waiting(m)
         /\ id \in Roots => id \notin Waiting(c)
         /\ c.satisfied \subseteq m.satisfied
  <1> DEFINE s == WithState(m, id, "destroyed")
  <1>1. /\ m \in ManagerTypes /\ d \in DisplayTypes /\ e \in EmbedderTypes
        /\ Tidy(m) /\ ImportsKnown(d) /\ Accounted(m, d)
        /\ OwnersInOrder(m, e) /\ SequencesInOrder(m, e) /\ TreeHeld(m, e)
        /\ EmbeddedExists(m, e)
    BY DEF Kept, Loose
  <1>2. c = GarbageCollectSurfaces(s)
    BY DEF Destroy, WithState
  <1>3. /\ s \in ManagerTypes
        /\ OnlySurface(m, s, id)
        /\ s.surfaces[id].state = "destroyed"
        /\ s.surfaces[id].frame = m.surfaces[id].frame
        /\ s.surfaces[id].callback = m.surfaces[id].callback
        /\ s.surfaces[id].dependencies = m.surfaces[id].dependencies
    BY <1>1, SetState
  <1> HIDE DEF s
  <1>4. \A other \in Ids :
          /\ s.surfaces[other].frame = m.surfaces[other].frame
          /\ s.surfaces[other].callback = m.surfaces[other].callback
          /\ s.surfaces[other].dependencies = m.surfaces[other].dependencies
          /\ ReferencedSurfaces(s, other) = ReferencedSurfaces(m, other)
    BY <1>3 DEF OnlySurface, ReferencedSurfaces
  <1>5. \A other : Exists(s, other) <=> Exists(m, other)
    BY <1>3 DEF OnlySurface, Exists
  <1>6. Tidy(s)
    BY <1>1, <1>4, <1>5 DEF Tidy, Ids
  <1>7. Accounted(s, d)
    BY <1>1, <1>3, <1>4, SameUses DEF OnlySurface, Ids
  <1>8. OwnersInOrder(s, f)
    BY <1>1, <1>3, Constants DEF OwnersInOrder, OnlySurface, Ids
  <1>9. SequencesInOrder(s, f)
    BY <1>1, <1>3 DEF SequencesInOrder, OnlySurface, SameTrees
  <1>10. TreeHeld(s, f)
    BY <1>1, <1>4 DEF TreeHeld, SameTrees, EmbedderTypes, Ids
  <1>11. EmbeddedExists(s, f)
    BY <1>1, <1>4, <1>5 DEF EmbeddedExists, SameTrees, EmbedderTypes, Ids
  <1>12. Loose(s, d, f)
    BY <1>1, <1>3, <1>6, <1>7, <1>8, <1>9, <1>10, <1>11 DEF Loose
  <1>13. /\ Kept(c, d, f)
         /\ Waiting(c) \subseteq Waiting(s)
         /\ \A other \in Ids : Gone(s, c, other) \/ Stays(s, c, other)
         /\ c.satisfied \subseteq s.satisfied
    BY <1>2, <1>12, CollectKeeps
  <1>14. Waiting(s) = Waiting(m)
    BY <1>4 DEF Waiting
  <1>15. \A other \in Ids \ {id} : m.surfaces[other].state # "destroyed" =>
              /\ c.surfaces[other].state = m.surfaces[other].state
              /\ c.surfaces[other].frame = m.surfaces[other].frame
    BY <1>3, <1>13 DEF OnlySurface, Gone, Stays
  <1>16. id \in Roots => id \notin Waiting(c)
    <2>1. Gone(s, c, id) \/ c.surfaces[id].state = "destroyed"
      BY <1>3, <1>13 DEF Stays
    <2> QED
      BY <1>13, <2>1 DEF Kept, Gone, Waiting
  <1> QED
    BY <1>3, <1>13, <1>14, <1>15, <1>16 DEF OnlySurface

\* What a member of the embedder may become with the sequences that are satisfied.
LEMMA BreakKeeps ==
  ASSUME NEW m, NEW d, NEW e, Kept(m, d, e), NEW f \in EmbedderTypes,
         NEW promises \in SUBSET Sequences,
         OwnersInOrder(m, f), SequencesInOrder(WithSatisfied(m, promises), f), TreeHeld(m, f),
         EmbeddedExists(m, f),
         NEW c, c = BreakPromises(m, promises)
  PROVE  /\ Kept(c, d, f)
         /\ Waiting(c) \subseteq Waiting(m)
         /\ \A id \in Ids : m.surfaces[id].state = "owned" =>
              /\ c.surfaces[id].state = "owned"
              /\ c.surfaces[id].frame = m.surfaces[id].frame
         /\ c.satisfied \subseteq m.satisfied \cup promises
  <1> DEFINE s == WithSatisfied(m, promises)
  <1>1. /\ m \in ManagerTypes /\ d \in DisplayTypes
        /\ Tidy(m) /\ ImportsKnown(d) /\ Accounted(m, d)
        /\ NoLeak(m) /\ \A root \in Roots : m.surfaces[root].state # "destroyed"
    BY DEF Kept, Loose
  <1>2. /\ s \in ManagerTypes
        /\ s.satisfied = m.satisfied \cup promises
        /\ s.surfaces = m.surfaces
        /\ s.namespace_valid = m.namespace_valid
        /\ s.factory = m.factory
        /\ s.received = m.received /\ s.alive = m.alive /\ s.in_flight = m.in_flight
    BY <1>1, SetSatisfied
  <1>3. CASE promises = {}
    <2>1. c = m
      BY <1>3 DEF BreakPromises
    <2>2. SequencesInOrder(m, f)
      BY <1>2, <1>3 DEF SequencesInOrder
    <2> QED
      BY <1>1, <2>1, <2>2 DEF Kept, Loose
  <1>4. CASE promises # {}
    <2>1. c = GarbageCollectSurfaces(s)
      BY <1>4 DEF BreakPromises, DidSatisfySequences, WithSatisfied
    <2>2. SequencesInOrder(s, f)
      OBVIOUS
    <2> HIDE DEF s
    <2>3. Accounted(s, d)
      BY <1>1, <1>2, SameUses
    <2>4. /\ Tidy(s) /\ OwnersInOrder(s, f) /\ TreeHeld(s, f) /\ EmbeddedExists(s, f)
      BY <1>1, <1>2
      DEF Tidy, OwnersInOrder, TreeHeld, EmbeddedExists, Exists, ReferencedSurfaces
    <2>5. Loose(s, d, f)
      BY <1>1, <1>2, <2>2, <2>3, <2>4 DEF Loose
    <2>6. /\ Kept(c, d, f)
          /\ Waiting(c) \subseteq Waiting(s)
          /\ \A id \in Ids : s.surfaces[id].state = "owned" => Stays(s, c, id)
          /\ c.satisfied \subseteq s.satisfied
      BY <2>1, <2>5, CollectKeeps
    <2> QED
      BY <1>2, <2>6 DEF Stays, Waiting
  <1> QED
    BY <1>3, <1>4

\* The end of the namespace.
LEMMA InvalidateKeeps ==
  ASSUME NEW m, NEW d, NEW e, Kept(m, d, e), ~e.alive,
         NEW c, c = InvalidateSurfaceIdNamespace(m)
  PROVE  Kept(c, d, e) /\ Waiting(c) \subseteq Waiting(m)
  <1> DEFINE s == WithoutNamespace(m)
  <1>1. /\ m \in ManagerTypes /\ d \in DisplayTypes /\ e \in EmbedderTypes
        /\ Tidy(m) /\ ImportsKnown(d) /\ Accounted(m, d)
        /\ OwnersInOrder(m, e) /\ SequencesInOrder(m, e) /\ TreeHeld(m, e)
        /\ EmbeddedExists(m, e)
    BY DEF Kept, Loose
  <1>2. c = GarbageCollectSurfaces(s)
    BY DEF InvalidateSurfaceIdNamespace, WithoutNamespace
  <1>3. /\ s \in ManagerTypes
        /\ s.surfaces = m.surfaces
        /\ s.satisfied = m.satisfied
        /\ s.factory = m.factory
        /\ s.received = m.received /\ s.alive = m.alive /\ s.in_flight = m.in_flight
    BY <1>1, SetNamespace
  <1> HIDE DEF s
  <1>4. Accounted(s, d)
    BY <1>1, <1>3, SameUses
  <1>5. /\ Tidy(s) /\ OwnersInOrder(s, e) /\ TreeHeld(s, e) /\ EmbeddedExists(s, e)
    BY <1>1, <1>3
    DEF Tidy, OwnersInOrder, TreeHeld, EmbeddedExists, Exists, ReferencedSurfaces
  <1>6. SequencesInOrder(s, e)
    BY <1>1, <1>3 DEF SequencesInOrder
  <1>7. Loose(s, d, e)
    BY <1>1, <1>3, <1>4, <1>5, <1>6 DEF Loose
  <1> QED
    BY <1>2, <1>3, <1>7, CollectKeeps DEF Waiting

-----------------------------------------------------------------------------
(* The invariant of records is the invariant of the specification.         *)

\* IInv says Good of the three variables.
LEMMA SameInvariant == IInv <=> Good(manager, display, embedder)
  <1>1. CallbacksTracked /\ Tidy(manager) <=>
          /\ Waiting(manager) \subseteq display.previous \cup {display.root}
          /\ RootHasFrame(manager, display)
          /\ Tidy(manager)
    BY DEF CallbacksTracked, Waiting, RootHasFrame, Tidy
  <1>2. ResourcesAccounted <=> Accounted(manager, display)
    BY DEF ResourcesAccounted, Accounted, Counted, Uses, Users
  <1>3. EmbeddedSurfacesExist <=> EmbeddedExists(manager, embedder)
    BY DEF EmbeddedSurfacesExist, EmbeddedExists
  <1>4. NothingLeaks <=> NoLeak(manager)
    BY DEF NothingLeaks, NoLeak
  <1> QED
    BY <1>1, <1>2, <1>3, <1>4 DEF IInv, TypeOK, AtRest, Good, Kept, Loose

\* It holds at the start.
LEMMA InitKeeps == Init => IInv
  <1> SUFFICES ASSUME Init PROVE Good(manager, display, embedder)
    BY SameInvariant
  <1>1. /\ manager \in ManagerTypes /\ display \in DisplayTypes /\ embedder \in EmbedderTypes
    BY Constants
    DEF Init, Manager0, Surface0, Display0, Embedder0, ManagerTypes, SurfaceTypes, DisplayTypes,
        EmbedderTypes, Sequences
  <1>2. /\ manager.factory /\ manager.namespace_valid /\ manager.satisfied = {}
        /\ \A id \in Ids : /\ manager.surfaces[id].state = "none"
                           /\ manager.surfaces[id].frame = NoFrame
                           /\ manager.surfaces[id].callback = FALSE
                           /\ manager.surfaces[id].dependencies = {}
        /\ \A r \in Resources : /\ manager.alive[r] = 0
                                /\ manager.received[r] = 0 /\ manager.in_flight[r] = 0
    BY DEF Init, Manager0, Surface0
  <1>3. /\ display.root = NoSurface
        /\ \A id \in Children, r \in Resources : display.imported[id][r] = 0
    BY DEF Init, Display0
  <1>4. /\ embedder.alive /\ embedder.next_sequence = 1 /\ embedder.sequence = 0
        /\ embedder.shown = NoSurface /\ embedder.tree = NoSurface
        /\ embedder.surface = NoSurface
        /\ embedder.promises = {} /\ embedder.tree_promises = {}
    BY DEF Init, Embedder0
  <1>5. \A id : ~Exists(manager, id)
    BY <1>2 DEF Exists
  <1>6. \A r \in Resources : Users(manager, r) = {} /\ Imports(display, Children, r) = {}
    BY <1>2, <1>3, Constants DEF Users, ResourcesIn, Imports, Ids
  <1>7. Accounted(manager, display)
    BY <1>2, <1>6, FS_EmptySet DEF Accounted, Counted, Uses
  <1>8. Tidy(manager) /\ ImportsKnown(display)
    BY <1>2, <1>3, Constants DEF Tidy, ImportsKnown, ResourcesIn, Ids
  <1>9. /\ OwnersInOrder(manager, embedder) /\ SequencesInOrder(manager, embedder)
        /\ TreeHeld(manager, embedder) /\ EmbeddedExists(manager, embedder)
    BY <1>2, <1>4, Constants
    DEF OwnersInOrder, SequencesInOrder, TreeHeld, EmbeddedExists, Ids
  <1>10. Waiting(manager) = {} /\ RootHasFrame(manager, display)
    BY <1>2, <1>3 DEF Waiting, RootHasFrame
  <1>11. /\ NoLeak(manager)
         /\ \A id \in Roots : manager.surfaces[id].state # "destroyed"
    BY <1>2 DEF NoLeak, Ids
  <1> QED
    BY <1>1, <1>3, <1>4, <1>7, <1>8, <1>9, <1>10, <1>11 DEF Good, Kept, Loose

-----------------------------------------------------------------------------
(* The steps of the child.                                                 *)

LEMMA SameTreesRefl == \A e : SameTrees(e, e)
  BY DEF SameTrees

\* What the steps use of it.
LEMMA Members ==
  ASSUME Good(manager, display, embedder)
  PROVE  /\ Kept(manager, display, embedder)
         /\ manager \in ManagerTypes /\ display \in DisplayTypes /\ embedder \in EmbedderTypes
         /\ display.root = embedder.surface
         /\ embedder.surface \in Roots \cup {NoSurface}
         /\ embedder.surface # NoSurface => embedder.output
         /\ ~embedder.alive => ~embedder.output
         /\ \A id \in Roots : manager.surfaces[id].state = "owned" <=> id = embedder.surface
         /\ Waiting(manager) \subseteq display.previous \cup {display.root}
         /\ RootHasFrame(manager, display)
  BY DEF Good, Kept, Loose, OwnersInOrder, EmbedderTypes

LEMMA CreateSurfaceKeeps ==
  ASSUME Good(manager, display, embedder), NEW id \in Children, CreateSurface(id)
  PROVE  Good(manager', display', embedder')
  <1>1. /\ manager.factory /\ manager.surfaces[id].state = "none"
        /\ manager' = Create(manager, id)
        /\ display' = display /\ embedder' = embedder
    BY DEF CreateSurface
  <1>2. id \in Ids /\ id \notin Roots
    BY Constants DEF Ids
  <1>3. /\ Kept(manager', display, embedder)
        /\ \A other \in Ids : manager'.surfaces[other].frame = manager.surfaces[other].frame
        /\ Waiting(manager') = Waiting(manager)
        /\ \A other : Exists(manager, other) => Exists(manager', other)
    BY <1>1, <1>2, Members, SameTreesRefl, CreateKeeps
  <1>4. RootHasFrame(manager', display)
    BY <1>3, Members DEF RootHasFrame, HasFrame, Exists
  <1> QED
    BY <1>1, <1>3, <1>4, Members DEF Good

LEMMA SubmitCompositorFrameKeeps ==
  ASSUME Good(manager, display, embedder), NEW id \in Children, SubmitCompositorFrame(id)
  PROVE  Good(manager', display', embedder')
  <1>1. PICK frame \in ChildFrames(id) :
          LET s == Submit(manager, display, id, frame, TRUE, {})
          IN manager' = s.m /\ display' = s.d
    BY DEF SubmitCompositorFrame
  <1> DEFINE callback == TRUE
             s == Submit(manager, display, id, frame, callback, {})
  <1>2. /\ manager' = s.m /\ display' = s.d /\ embedder' = embedder
        /\ manager.surfaces[id].state = "owned"
    BY <1>1 DEF SubmitCompositorFrame
  <1>3. /\ id \in Ids /\ id \notin Roots /\ id # embedder.surface
        /\ frame \in Frames \cup {NoFrame}
        /\ {} \in SUBSET embedder.tree_promises
        /\ callback \in BOOLEAN
    BY Members, Constants DEF Ids, ChildFrames
  <1>4. RootStays(manager, display, id)
    BY Members DEF RootStays, Ids
  <1>5. /\ Kept(s.m, s.d, embedder)
        /\ Waiting(s.m) \subseteq s.d.previous \cup {s.d.root}
        /\ s.d.root = display.root
        /\ RootHasFrame(s.m, s.d)
    <2> HIDE DEF callback
    <2> QED
      BY <1>2, <1>3, <1>4, Members, SubmitKeeps
  <1> HIDE DEF s
  <1> QED
    BY <1>2, <1>5, Members DEF Good

LEMMA DestroySurfaceKeeps ==
  ASSUME Good(manager, display, embedder), NEW id \in Children, DestroySurface(id)
  PROVE  Good(manager', display', embedder')
  <1>1. /\ manager.surfaces[id].state = "owned"
        /\ manager' = Destroy(manager, id)
        /\ display' = display /\ embedder' = embedder
    BY DEF DestroySurface
  <1>2. /\ id \in Ids /\ id \notin Roots /\ id # embedder.surface
        /\ embedder.surface = IF id = embedder.surface THEN NoSurface ELSE embedder.surface
    BY Members, Constants DEF Ids
  <1>3. /\ Kept(manager', display, embedder)
        /\ \A other \in Ids \ {id} : manager.surfaces[other].state # "destroyed" =>
             /\ manager'.surfaces[other].state = manager.surfaces[other].state
             /\ manager'.surfaces[other].frame = manager.surfaces[other].frame
        /\ Waiting(manager') \subseteq Waiting(manager)
    BY <1>1, <1>2, Members, SameTreesRefl, DestroyKeeps
  <1>4. RootHasFrame(manager', display)
    BY <1>2, <1>3, Members DEF RootHasFrame, HasFrame, Exists, Ids
  <1> QED
    BY <1>1, <1>3, <1>4, Members DEF Good

\* The children of a factory that goes away have no owner.
LEMMA DestroyFactoryKeeps ==
  ASSUME NEW m, NEW d, NEW e, Kept(m, d, e), NEW c, c = DestroyFactory(m)
  PROVE  /\ Kept(c, d, e)
         /\ \A id \in Roots : /\ c.surfaces[id].state = m.surfaces[id].state
                              /\ c.surfaces[id].frame = m.surfaces[id].frame
         /\ Waiting(c) \subseteq Waiting(m)
  <1> DEFINE Destroyed(surface) ==
               IF surface.state = "owned" THEN [surface EXCEPT !.state = "destroyed"] ELSE surface
             surfaces == [id \in Ids |-> IF id \in Children THEN Destroyed(m.surfaces[id])
                                         ELSE m.surfaces[id]]
             all == [m EXCEPT !.surfaces = surfaces]
             zero == [r \in Resources |-> 0]
             collected == GarbageCollectSurfaces(all)
  <1>1. /\ m \in ManagerTypes /\ d \in DisplayTypes /\ e \in EmbedderTypes
        /\ Tidy(m) /\ ImportsKnown(d) /\ Accounted(m, d)
        /\ OwnersInOrder(m, e) /\ SequencesInOrder(m, e) /\ TreeHeld(m, e)
        /\ EmbeddedExists(m, e)
        /\ \A root \in Roots : m.surfaces[root].state # "destroyed"
    BY DEF Kept, Loose
  <1>2. c = [collected EXCEPT !.factory = FALSE, !.received = zero, !.alive = zero,
                              !.in_flight = zero]
    BY DEF DestroyFactory
  <1>3. \A id \in Ids :
          /\ Destroyed(m.surfaces[id]) \in SurfaceTypes
          /\ Destroyed(m.surfaces[id]).state
               = IF m.surfaces[id].state = "owned" THEN "destroyed" ELSE m.surfaces[id].state
          /\ Destroyed(m.surfaces[id]).frame = m.surfaces[id].frame
          /\ Destroyed(m.surfaces[id]).callback = m.surfaces[id].callback
          /\ Destroyed(m.surfaces[id]).dependencies = m.surfaces[id].dependencies
    BY <1>1 DEF ManagerTypes, SurfaceTypes
  <1>4. /\ surfaces \in [Ids -> SurfaceTypes]
        /\ \A id \in Ids :
             /\ surfaces[id].frame = m.surfaces[id].frame
             /\ surfaces[id].callback = m.surfaces[id].callback
             /\ surfaces[id].dependencies = m.surfaces[id].dependencies
             /\ surfaces[id].state =
                  IF id \in Children /\ m.surfaces[id].state = "owned" THEN "destroyed"
                  ELSE m.surfaces[id].state
    <2> HIDE DEF Destroyed
    <2> QED
      BY <1>1, <1>3 DEF ManagerTypes
  <1>5. /\ all \in ManagerTypes
        /\ all.surfaces = surfaces
        /\ all.satisfied = m.satisfied
        /\ all.namespace_valid = m.namespace_valid
        /\ all.factory = m.factory
        /\ all.received = m.received /\ all.alive = m.alive /\ all.in_flight = m.in_flight
    <2> HIDE DEF surfaces
    <2> QED
      BY <1>1, <1>4 DEF ManagerTypes
  <1> HIDE DEF all, surfaces
  <1>6. /\ \A id : Exists(all, id) <=> Exists(m, id)
        /\ \A id \in Ids : ReferencedSurfaces(all, id) = ReferencedSurfaces(m, id)
    BY <1>4, <1>5 DEF Exists, ReferencedSurfaces
  <1>7. Tidy(all)
    BY <1>1, <1>4, <1>5, <1>6 DEF Tidy, Ids
  <1>8. Accounted(all, d)
    BY <1>1, <1>4, <1>5, SameUses DEF Ids
  <1>9. OwnersInOrder(all, e)
    BY <1>1, <1>4, <1>5, Constants DEF OwnersInOrder, Ids
  <1>10. SequencesInOrder(all, e)
    BY <1>1, <1>5 DEF SequencesInOrder
  <1>11. TreeHeld(all, e)
    BY <1>1, <1>4, <1>5 DEF TreeHeld, EmbedderTypes, Ids
  <1>12. EmbeddedExists(all, e)
    BY <1>1, <1>6 DEF EmbeddedExists, EmbedderTypes, Ids
  <1>13. Loose(all, d, e)
    BY <1>1, <1>5, <1>7, <1>8, <1>9, <1>10, <1>11, <1>12 DEF Loose
  <1>14. /\ Kept(collected, d, e)
         /\ Waiting(collected) \subseteq Waiting(all)
         /\ \A id \in Ids : Gone(all, collected, id) \/ Stays(all, collected, id)
    BY <1>13, CollectKeeps
  <1> HIDE DEF collected
  <1>15. \A id \in Children : collected.surfaces[id].state # "owned"
    BY <1>4, <1>5, <1>14 DEF Gone, Stays, Ids
  <1>16. /\ c \in ManagerTypes
         /\ c.surfaces = collected.surfaces
         /\ c.satisfied = collected.satisfied
         /\ c.namespace_valid = collected.namespace_valid
         /\ ~c.factory
    <2>1. collected \in ManagerTypes
      BY <1>14 DEF Kept, Loose
    <2>2. zero \in [Resources -> Nat]
      OBVIOUS
    <2> HIDE DEF zero
    <2> QED
      BY <1>2, <2>1, <2>2 DEF ManagerTypes
  <1>17. SameButCallbacks(collected, c) /\ Accounted(c, d)
    BY <1>15, <1>16 DEF SameButCallbacks, Accounted, Counted, Waiting
  <1>18. Kept(c, d, e)
    BY <1>1, <1>14, <1>16, <1>17, StillKept
  <1>19. \A id \in Roots : /\ c.surfaces[id].state = m.surfaces[id].state
                           /\ c.surfaces[id].frame = m.surfaces[id].frame
    BY <1>1, <1>4, <1>5, <1>14, <1>16, Constants DEF Gone, Stays, Ids
  <1>20. Waiting(c) \subseteq Waiting(m)
    BY <1>4, <1>5, <1>14, <1>16 DEF Waiting
  <1> QED
    BY <1>18, <1>19, <1>20

LEMMA ChildGoneKeeps ==
  ASSUME Good(manager, display, embedder), ChildGone
  PROVE  Good(manager', display', embedder')
  <1>1. manager' = DestroyFactory(manager) /\ display' = display /\ embedder' = embedder
    BY DEF ChildGone
  <1>2. /\ Kept(manager', display, embedder)
        /\ \A id \in Roots : /\ manager'.surfaces[id].state = manager.surfaces[id].state
                             /\ manager'.surfaces[id].frame = manager.surfaces[id].frame
        /\ Waiting(manager') \subseteq Waiting(manager)
    <2>1. Kept(manager, display, embedder)
      BY Members
    <2> QED
      BY <1>1, <2>1, DestroyFactoryKeeps
  <1>3. RootHasFrame(manager', display)
    BY <1>2, Members DEF RootHasFrame, HasFrame, Exists, Ids
  <1> QED
    BY <1>1, <1>2, <1>3, Members DEF Good

-----------------------------------------------------------------------------
(* The embedder's trees and promises.                                      *)

\* Surface::AddDestructionDependency.
LEMMA AddKeeps ==
  ASSUME NEW m, NEW d, NEW e, Kept(m, d, e),
         NEW id \in Children, m.surfaces[id].state = "owned", NEW sequence \in Sequences,
         NEW c, c = AddDestructionDependency(m, id, sequence)
  PROVE  /\ Kept(c, d, e)
         /\ \A other \in Ids : /\ c.surfaces[other].state = m.surfaces[other].state
                               /\ c.surfaces[other].frame = m.surfaces[other].frame
                               /\ m.surfaces[other].dependencies
                                    \subseteq c.surfaces[other].dependencies
         /\ sequence \in c.surfaces[id].dependencies
         /\ Waiting(c) = Waiting(m)
         /\ c.satisfied = m.satisfied /\ c.namespace_valid = m.namespace_valid
  <1>1. /\ m \in ManagerTypes /\ d \in DisplayTypes /\ e \in EmbedderTypes
        /\ Tidy(m) /\ ImportsKnown(d) /\ Accounted(m, d)
        /\ OwnersInOrder(m, e) /\ SequencesInOrder(m, e) /\ TreeHeld(m, e)
        /\ EmbeddedExists(m, e)
        /\ NoLeak(m) /\ \A root \in Roots : m.surfaces[root].state # "destroyed"
    BY DEF Kept, Loose
  <1>2. /\ c \in ManagerTypes
        /\ OnlySurface(m, c, id)
        /\ c.surfaces[id].dependencies = m.surfaces[id].dependencies \cup {sequence}
        /\ c.surfaces[id].state = m.surfaces[id].state
        /\ c.surfaces[id].frame = m.surfaces[id].frame
        /\ c.surfaces[id].callback = m.surfaces[id].callback
    BY <1>1, SetDependency DEF Ids
  <1>3. \A other \in Ids :
          /\ c.surfaces[other].state = m.surfaces[other].state
          /\ c.surfaces[other].frame = m.surfaces[other].frame
          /\ c.surfaces[other].callback = m.surfaces[other].callback
          /\ m.surfaces[other].dependencies \subseteq c.surfaces[other].dependencies
          /\ other # id => c.surfaces[other].dependencies = m.surfaces[other].dependencies
    BY <1>2 DEF OnlySurface
  <1>4. /\ \A other : Exists(c, other) <=> Exists(m, other)
        /\ \A other \in Ids : ReferencedSurfaces(c, other) = ReferencedSurfaces(m, other)
    BY <1>3 DEF Exists, ReferencedSurfaces
  <1>5. Tidy(c)
    BY <1>1, <1>3, <1>4, Constants DEF Tidy, Ids, Exists
  <1>6. Accounted(c, d)
    BY <1>1, <1>2, <1>3, SameUses DEF OnlySurface, Ids
  <1>7. OwnersInOrder(c, e) /\ SequencesInOrder(c, e)
    BY <1>1, <1>2, <1>3 DEF OwnersInOrder, SequencesInOrder, OnlySurface, Ids
  <1>8. TreeHeld(c, e)
    BY <1>1, <1>3 DEF TreeHeld, EmbedderTypes, Ids
  <1>9. EmbeddedExists(c, e)
    BY <1>1, <1>4 DEF EmbeddedExists, EmbedderTypes, Ids
  <1>10. NoLeak(c)
    <2>1. GCRoots(m) \subseteq GCRoots(c)
      BY <1>3, <1>4 DEF GCRoots
    <2>2. \A other \in LiveSurfaces(m) : other \in Ids
      BY ReachedByAll DEF LiveSurfaces, Reached
    <2>3. LiveSurfaces(m) \subseteq LiveSurfaces(c)
      BY <1>1, <1>2, <1>4, <2>1, <2>2, LiveGrows
    <2> QED
      BY <1>1, <1>3, <2>3 DEF NoLeak
  <1>11. \A root \in Roots : c.surfaces[root].state # "destroyed"
    BY <1>1, <1>3 DEF Ids
  <1> QED
    BY <1>1, <1>2, <1>3, <1>5, <1>6, <1>7, <1>8, <1>9, <1>10, <1>11
    DEF Kept, Loose, Waiting, OnlySurface

\* What the embedder may change of its own.
LEMMA TreesKeep ==
  ASSUME NEW m, NEW d, NEW e, Kept(m, d, e), NEW f \in EmbedderTypes,
         f.surface = e.surface, f.broken = e.broken,
         SequencesInOrder(m, f), TreeHeld(m, f)
  PROVE  Kept(m, d, f)
  BY DEF Kept, Loose, OwnersInOrder, EmbeddedExists

\* A new layer: its sequence holds the new surface, a promise the old one.
LEMMA ShowSurfaceKeeps ==
  ASSUME Good(manager, display, embedder), NEW id \in Children \cup {NoSurface},
         ShowSurface(id)
  PROVE  Good(manager', display', embedder')
  <1> DEFINE e == embedder
             m == manager
             promises == e.promises \cup ({e.sequence} \ {0})
             next == e.next_sequence
             shown == [e EXCEPT !.promises = promises, !.sequence = 0]
  <1>1. /\ e.alive
        /\ id # NoSurface => m.surfaces[id].state = "owned" /\ next <= MaxSequence
        /\ display' = display
        /\ id = NoSurface => manager' = m /\ embedder' = [shown EXCEPT !.shown = NoSurface]
        /\ id # NoSurface =>
             /\ manager' = AddDestructionDependency(m, id, next)
             /\ embedder' = [shown EXCEPT !.shown = id, !.sequence = next,
                                          !.next_sequence = next + 1]
    BY DEF ShowSurface, QueuePromise
  <1>2. /\ e \in EmbedderTypes /\ m \in ManagerTypes
        /\ e.sequence \in Nat /\ next \in Nat /\ next >= 1 /\ MaxSequence \in Nat
        /\ \A n \in e.promises \cup e.tree_promises \cup m.satisfied : n \in Nat /\ n >= 1
    BY Members, Constants DEF EmbedderTypes, ManagerTypes, Sequences
  <1>3. promises \in SUBSET Sequences
    BY <1>2 DEF EmbedderTypes
  <1>4. /\ shown \in EmbedderTypes
        /\ shown.promises = promises /\ shown.sequence = 0
        /\ shown.alive = e.alive /\ shown.next_sequence = next /\ shown.shown = e.shown
        /\ shown.tree = e.tree /\ shown.tree_promises = e.tree_promises
        /\ shown.output = e.output /\ shown.surface = e.surface /\ shown.broken = e.broken
    <2> HIDE DEF promises
    <2> QED
      BY <1>2, <1>3 DEF EmbedderTypes
  <1>5. SequencesInOrder(m, e) /\ TreeHeld(m, e)
    BY Members DEF Kept, Loose
  <1>6. CASE id = NoSurface
    <2>1. /\ embedder' \in EmbedderTypes
          /\ embedder'.shown = NoSurface
          /\ embedder'.promises = promises /\ embedder'.sequence = 0
          /\ embedder'.alive = e.alive /\ embedder'.next_sequence = next
          /\ embedder'.tree = e.tree /\ embedder'.tree_promises = e.tree_promises
          /\ embedder'.output = e.output /\ embedder'.surface = e.surface
          /\ embedder'.broken = e.broken
      <3> HIDE DEF shown, promises
      <3> QED
        BY <1>1, <1>4, <1>6 DEF EmbedderTypes
    <2>2. SequencesInOrder(m, embedder')
      BY <1>1, <1>2, <1>5, <2>1 DEF SequencesInOrder
    <2>3. TreeHeld(m, embedder')
      BY <1>2, <1>5, <2>1, SurfaceMembers DEF TreeHeld, EmbedderTypes, Ids, Sequences
    <2>4. Kept(m, display, embedder')
      BY <2>1, <2>2, <2>3, Members, TreesKeep
    <2> QED
      BY <1>1, <1>6, <2>1, <2>4, Members DEF Good
  <1>7. CASE id # NoSurface
    <2>1. /\ next \in Sequences /\ next + 1 \in 1 .. MaxSequence + 1 /\ id \in Children
      BY <1>1, <1>2, <1>7 DEF Sequences
    <2>2. /\ embedder' \in EmbedderTypes
          /\ embedder'.shown = id
          /\ embedder'.promises = promises /\ embedder'.sequence = next
          /\ embedder'.alive = e.alive /\ embedder'.next_sequence = next + 1
          /\ embedder'.tree = e.tree /\ embedder'.tree_promises = e.tree_promises
          /\ embedder'.output = e.output /\ embedder'.surface = e.surface
          /\ embedder'.broken = e.broken
      <3> HIDE DEF shown, promises, next
      <3> QED
        BY <1>1, <1>4, <1>7, <2>1 DEF EmbedderTypes
    <2>3. /\ Kept(manager', display, e)
          /\ \A other \in Ids :
               /\ manager'.surfaces[other].state = m.surfaces[other].state
               /\ manager'.surfaces[other].frame = m.surfaces[other].frame
               /\ m.surfaces[other].dependencies \subseteq manager'.surfaces[other].dependencies
          /\ next \in manager'.surfaces[id].dependencies
          /\ Waiting(manager') = Waiting(m)
          /\ manager'.satisfied = m.satisfied /\ manager'.namespace_valid = m.namespace_valid
      <3> HIDE DEF next
      <3> QED
        BY <1>1, <1>7, <2>1, Members, AddKeeps
    <2>4. SequencesInOrder(manager', embedder')
      BY <1>1, <1>2, <1>5, <2>2, <2>3 DEF SequencesInOrder
    <2>5. TreeHeld(manager', embedder')
      BY <1>2, <1>5, <2>1, <2>2, <2>3, SurfaceMembers
      DEF TreeHeld, EmbedderTypes, Ids, Sequences
    <2>6. Kept(manager', display, embedder')
      BY <2>2, <2>3, <2>4, <2>5, TreesKeep
    <2>7. RootHasFrame(manager', display)
      BY <2>3, Members DEF RootHasFrame, HasFrame, Exists, Ids
    <2> QED
      BY <1>1, <2>2, <2>3, <2>6, <2>7, Members DEF Good
  <1> QED
    BY <1>6, <1>7

\* An aborted main frame breaks promises that may hold what the tree shows.
LEMMA MainFrameAbortedKeeps ==
  ASSUME Good(manager, display, embedder), MainFrameAborted
  PROVE  Good(manager', display', embedder')
  <1> DEFINE e == embedder
             m == manager
             f == [e EXCEPT !.promises = {}, !.broken = @ \/ e.promises # {}]
  <1>1. /\ manager' = BreakPromises(m, e.promises) /\ display' = display /\ embedder' = f
    BY DEF MainFrameAborted
  <1>2. m \in ManagerTypes /\ e \in EmbedderTypes /\ e.promises \in SUBSET Sequences
    BY Members DEF EmbedderTypes
  <1>3. /\ f \in EmbedderTypes
        /\ f.promises = {}
        /\ f.broken = (e.broken \/ e.promises # {})
        /\ f.alive = e.alive /\ f.next_sequence = e.next_sequence
        /\ f.shown = e.shown /\ f.sequence = e.sequence
        /\ f.tree = e.tree /\ f.tree_promises = e.tree_promises
        /\ f.output = e.output /\ f.surface = e.surface
    BY <1>2 DEF EmbedderTypes
  <1>4. /\ SequencesInOrder(m, e) /\ TreeHeld(m, e) /\ EmbeddedExists(m, e)
        /\ OwnersInOrder(m, e)
    BY Members DEF Kept, Loose
  <1> HIDE DEF f
  <1>5. SequencesInOrder(WithSatisfied(m, e.promises), f)
    <2>1. /\ WithSatisfied(m, e.promises).satisfied = m.satisfied \cup e.promises
          /\ WithSatisfied(m, e.promises).namespace_valid = m.namespace_valid
      BY <1>2, SetSatisfied
    <2> QED
      BY <1>3, <1>4, <2>1 DEF SequencesInOrder
  <1>6. TreeHeld(m, f)
    BY <1>3, <1>4 DEF TreeHeld
  <1>7. EmbeddedExists(m, f) /\ OwnersInOrder(m, f)
    BY <1>3, <1>4 DEF EmbeddedExists, OwnersInOrder
  <1>8. /\ Kept(manager', display, f)
        /\ Waiting(manager') \subseteq Waiting(m)
        /\ \A id \in Ids : m.surfaces[id].state = "owned" =>
             /\ manager'.surfaces[id].state = "owned"
             /\ manager'.surfaces[id].frame = m.surfaces[id].frame
    BY <1>1, <1>2, <1>3, <1>5, <1>6, <1>7, Members, BreakKeeps
  <1>9. RootHasFrame(manager', display)
    BY <1>8, Members DEF RootHasFrame, HasFrame, Exists, Ids
  <1> QED
    BY <1>1, <1>3, <1>8, <1>9, Members DEF Good

\* The root of the display keeps its frame while its owner keeps it.
LEMMA RootStaysDrawn ==
  ASSUME NEW m, NEW d, NEW e, Kept(m, d, e), d.root = e.surface, RootHasFrame(m, d),
         NEW c,
         \A id \in Ids : m.surfaces[id].state = "owned" =>
           /\ c.surfaces[id].state = "owned"
           /\ c.surfaces[id].frame = m.surfaces[id].frame
  PROVE  RootHasFrame(c, d)
  BY DEF Kept, Loose, OwnersInOrder, EmbedderTypes, RootHasFrame, HasFrame, Exists, Ids

\* BeginCommit leaves the root without a frame.
LEMMA ReclaimKeeps ==
  ASSUME Good(manager, display, embedder),
         NEW r, r = IF embedder.surface = NoSurface THEN [m |-> manager, d |-> display]
                    ELSE Submit(manager, display, embedder.surface, NoFrame, FALSE, {})
  PROVE  /\ Kept(r.m, r.d, embedder)
         /\ Waiting(r.m) \subseteq r.d.previous \cup {r.d.root}
         /\ r.d.root = embedder.surface
         /\ RootHasFrame(r.m, r.d)
         /\ embedder.surface # NoSurface => r.m.surfaces[embedder.surface].frame = NoFrame
  <1>1. CASE embedder.surface = NoSurface
    BY <1>1, Members
  <1>2. CASE embedder.surface # NoSurface
    <2> DEFINE callback == FALSE
               frame == NoFrame
               id == embedder.surface
               m == manager
               d == display
               s == Submit(m, d, id, frame, callback, {})
    <2>1. r = s
      BY <1>2
    <2>2. /\ id \in Ids /\ m.surfaces[id].state = "owned"
          /\ frame \in Frames \cup {NoFrame} /\ callback \in BOOLEAN
          /\ ResourcesIn(frame) = {}
          /\ {} \in SUBSET embedder.tree_promises
          /\ id = embedder.surface /\ frame # NoFrame =>
               \A ref \in frame.refs : Exists(m, ref) \/ embedder.broken
      BY <1>2, Members DEF ResourcesIn, Ids
    <2>3. RootStays(m, d, id)
      BY Members DEF RootStays
    <2>4. Kept(m, d, embedder) /\ Waiting(m) \subseteq d.previous \cup {d.root}
      BY Members
    <2>5. d.root = id
      BY Members
    <2>6. frame = NoFrame /\ id = embedder.surface
      OBVIOUS
    <2> HIDE DEF callback, frame, id, m, d
    <2>7. id \in Roots => ResourcesIn(frame) = {}
      BY <2>2
    <2>8. /\ Kept(s.m, s.d, embedder)
          /\ Waiting(s.m) \subseteq s.d.previous \cup {s.d.root}
          /\ s.d.root = d.root
          /\ s.m.surfaces[id].frame = frame
          /\ RootHasFrame(s.m, s.d)
      BY <2>2, <2>3, <2>4, <2>7, SubmitKeeps
    <2> QED
      BY <2>1, <2>5, <2>6, <2>8
  <1> QED
    BY <1>1, <1>2

\* BeginCommit: the promises that are broken do not hold what the new tree shows.
LEMMA CommitKeeps ==
  ASSUME Good(manager, display, embedder), Commit
  PROVE  Good(manager', display', embedder')
  <1> DEFINE e == embedder
             r == IF e.surface = NoSurface THEN [m |-> manager, d |-> display]
                  ELSE Submit(manager, display, e.surface, NoFrame, FALSE, {})
  <1>1. PICK resized \in BOOLEAN :
          embedder' = [e EXCEPT
            !.tree = e.shown, !.tree_promises = e.promises, !.promises = {},
            !.resized = resized, !.committed = TRUE, !.broken = FALSE]
    BY DEF Commit
  <1>2. /\ e.alive /\ e.output
        /\ manager' = BreakPromises(r.m, e.tree_promises)
        /\ display' = r.d
    BY DEF Commit
  <1>3. /\ Kept(r.m, r.d, e)
        /\ Waiting(r.m) \subseteq r.d.previous \cup {r.d.root}
        /\ r.d.root = e.surface
        /\ RootHasFrame(r.m, r.d)
        /\ e.surface # NoSurface => r.m.surfaces[e.surface].frame = NoFrame
    BY ReclaimKeeps
  <1> HIDE DEF r
  <1>4. e \in EmbedderTypes
    BY Members
  <1>5. /\ embedder' \in EmbedderTypes
        /\ embedder'.tree = e.shown /\ embedder'.tree_promises = e.promises
        /\ embedder'.promises = {} /\ ~embedder'.broken
        /\ embedder'.alive = e.alive /\ embedder'.next_sequence = e.next_sequence
        /\ embedder'.shown = e.shown /\ embedder'.sequence = e.sequence
        /\ embedder'.output = e.output /\ embedder'.surface = e.surface
    BY <1>1, <1>4 DEF EmbedderTypes
  <1>6. /\ r.m \in ManagerTypes
        /\ OwnersInOrder(r.m, e) /\ SequencesInOrder(r.m, e) /\ TreeHeld(r.m, e)
    BY <1>3 DEF Kept, Loose
  <1>7. e.tree_promises \in SUBSET Sequences
    BY <1>4 DEF EmbedderTypes
  <1>8. SequencesInOrder(WithSatisfied(r.m, e.tree_promises), embedder')
    <2>1. /\ WithSatisfied(r.m, e.tree_promises).satisfied = r.m.satisfied \cup e.tree_promises
          /\ WithSatisfied(r.m, e.tree_promises).namespace_valid = r.m.namespace_valid
      BY <1>6, <1>7, SetSatisfied
    <2> QED
      BY <1>2, <1>5, <1>6, <2>1 DEF SequencesInOrder
  <1>9. TreeHeld(r.m, embedder') /\ OwnersInOrder(r.m, embedder')
    BY <1>5, <1>6 DEF TreeHeld, OwnersInOrder
  <1>10. EmbeddedExists(r.m, embedder')
    BY <1>3, <1>5 DEF EmbeddedExists, ReferencedSurfaces
  <1>11. /\ Kept(manager', r.d, embedder')
         /\ Waiting(manager') \subseteq Waiting(r.m)
         /\ \A id \in Ids : r.m.surfaces[id].state = "owned" =>
              /\ manager'.surfaces[id].state = "owned"
              /\ manager'.surfaces[id].frame = r.m.surfaces[id].frame
    BY <1>2, <1>3, <1>5, <1>7, <1>8, <1>9, <1>10, BreakKeeps
  <1>12. RootHasFrame(manager', r.d)
    BY <1>3, <1>11, RootStaysDrawn
  <1> QED
    BY <1>2, <1>3, <1>5, <1>11, <1>12, Members DEF Good

-----------------------------------------------------------------------------
(* SurfaceDisplayOutputSurface.                                            *)

\* The embedder with another surface.
WithSurface(e, surface) == [e EXCEPT !.surface = surface]

LEMMA SetSurface ==
  ASSUME NEW e \in EmbedderTypes, NEW surface \in Roots \cup {NoSurface},
         NEW f, f = WithSurface(e, surface)
  PROVE  /\ f \in EmbedderTypes /\ SameTrees(e, f) /\ f.surface = surface
         /\ f.output = e.output
  BY DEF EmbedderTypes, SameTrees, WithSurface

\* The surface to submit to is there, and nobody waits for the one before.
LEMMA NewSurfaceKeeps ==
  ASSUME Good(manager, display, embedder), NEW id \in Roots,
         IF NeedsNewSurface THEN manager.surfaces[id].state = "none" ELSE id = embedder.surface,
         NEW c, c = IF ~NeedsNewSurface THEN manager
                    ELSE IF embedder.surface = NoSurface THEN Create(manager, id)
                    ELSE Create(Destroy(manager, embedder.surface), id),
         NEW f, f = WithSurface(embedder, id)
  PROVE  /\ Kept(c, display, f)
         /\ c.surfaces[id].state = "owned"
         /\ Waiting(c) \subseteq display.previous \cup {id}
  <1> DEFINE e == embedder
             m == manager
  <1>1. /\ e \in EmbedderTypes /\ id \in Ids /\ id \notin Children
        /\ f \in EmbedderTypes /\ SameTrees(e, f) /\ f.surface = id
    BY Members, Constants, SetSurface DEF Ids
  <1>2. CASE ~NeedsNewSurface
    <2>1. e = f
      BY <1>2, Members DEF WithSurface, EmbedderTypes
    <2> QED
      BY <1>2, <2>1, Members
  <1>3. CASE NeedsNewSurface /\ e.surface = NoSurface
    <2>1. c = Create(m, id)
      BY <1>3
    <2>2. /\ Kept(c, display, f)
          /\ c.surfaces[id].state = "owned"
          /\ Waiting(c) = Waiting(m)
      BY <1>1, <1>3, <2>1, Members, CreateKeeps
    <2>3. NoSurface \notin Waiting(m)
      BY Constants DEF Waiting
    <2> QED
      BY <1>3, <2>2, <2>3, Members
  <1>4. CASE NeedsNewSurface /\ e.surface # NoSurface
    <2> DEFINE none == WithSurface(e, NoSurface)
               destroyed == Destroy(m, e.surface)
    <2>1. /\ none \in EmbedderTypes /\ SameTrees(e, none) /\ none.surface = NoSurface
      BY <1>1, SetSurface
    <2> HIDE DEF none
    <2>2. /\ e.surface \in Ids /\ m.surfaces[e.surface].state = "owned" /\ id # e.surface
          /\ m.surfaces[id].state = "none"
      BY <1>4, Members DEF Ids
    <2>3. /\ Kept(destroyed, display, none)
          /\ \A other \in Ids \ {e.surface} : m.surfaces[other].state # "destroyed" =>
               /\ destroyed.surfaces[other].state = m.surfaces[other].state
               /\ destroyed.surfaces[other].frame = m.surfaces[other].frame
          /\ Waiting(destroyed) \subseteq Waiting(m)
          /\ e.surface \in Roots => e.surface \notin Waiting(destroyed)
      BY <2>1, <2>2, Members, DestroyKeeps
    <2>4. c = Create(destroyed, id)
      BY <1>4
    <2> HIDE DEF destroyed
    <2>5. destroyed.surfaces[id].state = "none"
      BY <1>1, <2>2, <2>3
    <2>6. SameTrees(none, f)
      BY <1>1, <2>1 DEF SameTrees
    <2>7. /\ Kept(c, display, f)
          /\ c.surfaces[id].state = "owned"
          /\ Waiting(c) = Waiting(destroyed)
      BY <1>1, <2>1, <2>3, <2>4, <2>5, <2>6, CreateKeeps
    <2> QED
      BY <1>4, <2>3, <2>7, Members
  <1> QED
    BY <1>2, <1>3, <1>4

\* Display::SetSurfaceId.
LEMMA SetSurfaceIdKeeps ==
  ASSUME NEW m, NEW d, NEW e, Kept(m, d, e), NEW id \in Roots,
         NEW f, f = SetSurfaceId(m, d, id)
  PROVE  Kept(m, f, e) /\ f.root = id /\ f.previous = d.previous
  <1>1. d \in DisplayTypes /\ Accounted(m, d) /\ ImportsKnown(d)
    BY DEF Kept, Loose
  <1>2. CASE d.root = id
    BY <1>2 DEF SetSurfaceId
  <1>3. CASE d.root # id
    <2> DEFINE locked == RootLocked(m, id)
    <2>1. locked \in BOOLEAN
      BY DEF RootLocked
    <2>2. f = [d EXCEPT !.root = id, !.locked = locked, !.needs_draw = TRUE]
      BY <1>3 DEF SetSurfaceId
    <2> HIDE DEF locked
    <2>3. /\ f \in DisplayTypes /\ f.root = id /\ f.previous = d.previous
          /\ f.imported = d.imported /\ f.children = d.children
      BY <1>1, <2>1, <2>2 DEF DisplayTypes
    <2>4. Accounted(m, f) /\ ImportsKnown(f)
      BY <1>1, <2>3, SameImports
    <2> QED
      BY <2>3, <2>4 DEF Kept, Loose
  <1> QED
    BY <1>2, <1>3

\* The frame of the active tree shows what the tree's sequence holds.
LEMMA TreeFrameExists ==
  ASSUME NEW m, NEW d, NEW e, Kept(m, d, e), NEW frame, frame # NoFrame,
         frame.refs \subseteq {e.tree} \ {NoSurface}
  PROVE  \A ref \in frame.refs : Exists(m, ref) \/ e.broken
  <1>1. Tidy(m) /\ TreeHeld(m, e) /\ e \in EmbedderTypes
    BY DEF Kept, Loose
  <1>2. e.tree # NoSurface => e.tree \in Ids
    BY <1>1 DEF EmbedderTypes, Ids
  <1> QED
    BY <1>1, <1>2 DEF Tidy, TreeHeld

\* SwapBuffers: what its promises satisfy does not hold what the tree shows.
LEMMA SwapBuffersKeeps ==
  ASSUME Good(manager, display, embedder), SwapBuffers
  PROVE  Good(manager', display', embedder')
  <1> DEFINE e == embedder
             Created(id) == IF ~NeedsNewSurface THEN manager
                            ELSE IF e.surface = NoSurface THEN Create(manager, id)
                            ELSE Create(Destroy(manager, e.surface), id)
  <1>1. PICK id \in Roots, frame \in TreeFrames :
          /\ IF NeedsNewSurface THEN manager.surfaces[id].state = "none" ELSE id = e.surface
          /\ LET created == Created(id)
                 s == Submit(created, SetSurfaceId(created, display, id), id, frame, TRUE,
                             e.tree_promises)
             IN manager' = s.m /\ display' = s.d
          /\ embedder' = [e EXCEPT !.surface = id, !.resized = FALSE, !.tree_promises = {}]
    BY DEF SwapBuffers
  <1> DEFINE c == Created(id)
             d == SetSurfaceId(c, display, id)
             f == WithSurface(e, id)
             callback == TRUE
             promises == e.tree_promises
             s == Submit(c, d, id, frame, callback, promises)
  <1>2. manager' = s.m /\ display' = s.d /\ e.output
    BY <1>1 DEF SwapBuffers
  <1>3. /\ Kept(c, display, f)
        /\ c.surfaces[id].state = "owned"
        /\ Waiting(c) \subseteq display.previous \cup {id}
    BY <1>1, NewSurfaceKeeps
  <1> HIDE DEF c
  <1>4. Kept(c, d, f) /\ d.root = id /\ d.previous = display.previous
    BY <1>3, SetSurfaceIdKeeps
  <1>5. /\ e \in EmbedderTypes /\ f \in EmbedderTypes /\ SameTrees(e, f) /\ f.surface = id
        /\ f.output = e.output
    BY Members, SetSurface
  <1> HIDE DEF d, f
  <1>6. /\ id \in Ids /\ callback \in BOOLEAN
        /\ promises \in SUBSET f.tree_promises
        /\ Waiting(c) \subseteq d.previous \cup {d.root}
        /\ RootStays(c, d, id)
    BY <1>3, <1>4, <1>5 DEF Ids, SameTrees, RootStays
  <1>7. /\ frame \in Frames /\ frame # NoFrame /\ ResourcesIn(frame) = {}
        /\ frame.refs \subseteq {f.tree} \ {NoSurface}
    BY <1>5, Constants DEF TreeFrames, Frames, ResourcesIn, EmbedderTypes, SameTrees
  <1>8. \A ref \in frame.refs : Exists(c, ref) \/ f.broken
    BY <1>4, <1>7, TreeFrameExists
  <1>9. /\ frame \in Frames \cup {NoFrame}
        /\ id \in Roots => ResourcesIn(frame) = {}
        /\ id = f.surface /\ frame # NoFrame =>
             \A ref \in frame.refs : Exists(c, ref) \/ f.broken
    BY <1>7, <1>8
  <1>10. /\ Kept(s.m, s.d, f)
         /\ Waiting(s.m) \subseteq s.d.previous \cup {s.d.root}
         /\ s.d.root = d.root
         /\ RootHasFrame(s.m, s.d)
    <2> HIDE DEF callback, promises
    <2> QED
      BY <1>3, <1>4, <1>6, <1>9, SubmitKeeps
  <1> HIDE DEF s
  <1>11. /\ embedder' \in EmbedderTypes
         /\ embedder'.surface = id /\ embedder'.output = e.output /\ embedder'.alive = e.alive
         /\ embedder'.next_sequence = e.next_sequence
         /\ embedder'.shown = e.shown /\ embedder'.sequence = e.sequence
         /\ embedder'.promises = e.promises /\ embedder'.tree_promises = {}
         /\ embedder'.tree = e.tree /\ embedder'.broken = e.broken
    BY <1>1, <1>5 DEF EmbedderTypes
  <1>12. SequencesInOrder(s.m, f) /\ TreeHeld(s.m, f)
    BY <1>10 DEF Kept, Loose
  <1>13. SequencesInOrder(s.m, embedder') /\ TreeHeld(s.m, embedder')
    BY <1>5, <1>11, <1>12 DEF SequencesInOrder, TreeHeld, SameTrees
  <1>14. Kept(s.m, s.d, embedder')
    BY <1>5, <1>10, <1>11, <1>13, TreesKeep DEF SameTrees
  <1> QED
    BY <1>2, <1>4, <1>10, <1>11, <1>14, Members DEF Good

\* The output surface and the display leave nothing behind.
LEMMA DestroyOutputKeeps ==
  ASSUME Good(manager, display, embedder),
         NEW g \in EmbedderTypes, SameTrees(embedder, g), g.surface = NoSurface,
         NEW s, s = DestroyOutput(manager, display)
  PROVE  /\ Kept(s.m, s.d, g)
         /\ Waiting(s.m) = {}
         /\ s.d = Display0
  <1> DEFINE e == embedder
             m == manager
             d == display
             destroyed == IF e.surface = NoSurface THEN m ELSE Destroy(m, e.surface)
             c == DestroyChildren(destroyed, d, d.children)
             f == Forget(d, d.children)
  <1>1. s = [m |-> RunDrawCallbacks(c, d.previous), d |-> Display0]
    BY DEF DestroyOutput, DestroyDisplay
  <1>2. /\ Kept(m, d, e) /\ d \in DisplayTypes /\ d.root = e.surface
        /\ e.surface \in Roots \cup {NoSurface}
        /\ \A id \in Roots : m.surfaces[id].state = "owned" <=> id = e.surface
        /\ Waiting(m) \subseteq d.previous \cup {d.root}
    BY Members
  <1>3. Kept(destroyed, d, g) /\ Waiting(destroyed) \subseteq d.previous
    <2>1. CASE e.surface = NoSurface
      <3>1. SequencesInOrder(m, e) /\ TreeHeld(m, e)
        BY <1>2 DEF Kept, Loose
      <3>2. SequencesInOrder(m, g) /\ TreeHeld(m, g)
        BY <3>1 DEF SequencesInOrder, TreeHeld, SameTrees
      <3>3. Kept(m, d, g)
        BY <1>2, <2>1, <3>2, TreesKeep DEF SameTrees
      <3>4. NoSurface \notin Waiting(m)
        BY Constants DEF Waiting
      <3> QED
        BY <1>2, <2>1, <3>3, <3>4
    <2>2. CASE e.surface # NoSurface
      <3> DEFINE id == e.surface
      <3>1. /\ id \in Ids /\ id \in Roots /\ m.surfaces[id].state = "owned"
            /\ g.surface = IF id = e.surface THEN NoSurface ELSE e.surface
        BY <1>2, <2>2 DEF Ids
      <3>2. destroyed = Destroy(m, id)
        BY <2>2
      <3> HIDE DEF destroyed
      <3>3. /\ Kept(destroyed, d, g)
            /\ Waiting(destroyed) \subseteq Waiting(m)
            /\ id \in Roots => id \notin Waiting(destroyed)
        BY <1>2, <3>1, <3>2, DestroyKeeps
      <3> QED
        BY <1>2, <3>1, <3>3
    <2> QED
      BY <2>1, <2>2
  <1> HIDE DEF destroyed
  <1>4. /\ destroyed \in ManagerTypes /\ ImportsKnown(d) /\ Accounted(destroyed, d)
        /\ d.children \in SUBSET Ids /\ d.previous \in SUBSET Ids
    BY <1>2, <1>3 DEF Kept, Loose, DisplayTypes
  <1>5. /\ c \in ManagerTypes
        /\ SameSurfaces(destroyed, c)
        /\ f \in DisplayTypes
        /\ f.children = d.children \ d.children
        /\ ImportsKnown(f)
        /\ Accounted(c, f)
    BY <1>2, <1>4, Release
  <1> HIDE DEF c, f
  <1>6. Display0 \in DisplayTypes
    BY DEF Display0, DisplayTypes
  <1>7. /\ Display0.children = f.children
        /\ Display0.imported = f.imported
    <2>1. \A id \in Children, r \in Resources : f.imported[id][r] = 0
      BY <1>5 DEF ImportsKnown, DisplayTypes
    <2> QED
      BY <1>5, <2>1 DEF Display0, DisplayTypes
  <1>8. Accounted(c, Display0) /\ ImportsKnown(Display0)
    BY <1>5, <1>7, SameImports
  <1>9. SameButCallbacks(destroyed, c)
    BY <1>5 DEF SameSurfaces, SameButCallbacks, Waiting
  <1>10. Kept(c, Display0, g)
    BY <1>3, <1>5, <1>6, <1>8, <1>9, StillKept
  <1>11. Waiting(c) \subseteq d.previous
    BY <1>3, <1>9 DEF SameButCallbacks
  <1>12. /\ Kept(RunDrawCallbacks(c, d.previous), Display0, g)
         /\ Waiting(RunDrawCallbacks(c, d.previous)) = Waiting(c) \ d.previous
    BY <1>4, <1>10, SkipKept
  <1> QED
    BY <1>1, <1>11, <1>12

LEMMA LoseOutputSurfaceKeeps ==
  ASSUME Good(manager, display, embedder), LoseOutputSurface
  PROVE  Good(manager', display', embedder')
  <1> DEFINE s == DestroyOutput(manager, display)
  <1>1. /\ manager' = s.m /\ display' = s.d
        /\ embedder' = [embedder EXCEPT !.output = FALSE, !.committed = FALSE,
                                        !.surface = NoSurface, !.resized = FALSE]
    BY DEF LoseOutputSurface
  <1>2. /\ embedder' \in EmbedderTypes /\ SameTrees(embedder, embedder')
        /\ embedder'.surface = NoSurface /\ ~embedder'.output
    BY <1>1, Members DEF EmbedderTypes, SameTrees
  <1>3. Kept(s.m, s.d, embedder') /\ Waiting(s.m) = {} /\ s.d = Display0
    BY <1>2, DestroyOutputKeeps
  <1> QED
    BY <1>1, <1>2, <1>3 DEF Good, RootHasFrame, Display0

LEMMA CreateOutputSurfaceKeeps ==
  ASSUME Good(manager, display, embedder), CreateOutputSurface
  PROVE  Good(manager', display', embedder')
  <1>1. /\ embedder.alive /\ manager' = manager /\ display' = display
        /\ embedder' = [embedder EXCEPT !.output = TRUE]
    BY DEF CreateOutputSurface
  <1>2. /\ embedder' \in EmbedderTypes /\ SameTrees(embedder, embedder')
        /\ embedder'.surface = embedder.surface /\ embedder'.output
    BY <1>1, Members DEF EmbedderTypes, SameTrees
  <1>3. SequencesInOrder(manager, embedder) /\ TreeHeld(manager, embedder)
    BY Members DEF Kept, Loose
  <1>4. SequencesInOrder(manager, embedder') /\ TreeHeld(manager, embedder')
    BY <1>2, <1>3 DEF SequencesInOrder, TreeHeld, SameTrees
  <1>5. Kept(manager, display, embedder')
    BY <1>2, <1>4, Members, TreesKeep DEF SameTrees
  <1> QED
    BY <1>1, <1>2, <1>5, Members DEF Good, SameTrees

\* Everything that the embedder's sequences held is let go of with the namespace.
LEMMA EmbedderGoneKeeps ==
  ASSUME Good(manager, display, embedder), EmbedderGone
  PROVE  Good(manager', display', embedder')
  <1> DEFINE e == embedder
             s == DestroyOutput(manager, display)
             promises == e.promises \cup e.tree_promises
             broken == BreakPromises(s.m, promises)
             g == WithSurface(e, NoSurface)
  <1>1. /\ manager' = InvalidateSurfaceIdNamespace(broken)
        /\ display' = s.d
        /\ embedder' = [Embedder0 EXCEPT !.alive = FALSE, !.output = FALSE,
                                         !.next_sequence = e.next_sequence]
    BY DEF EmbedderGone
  <1>2. e \in EmbedderTypes
    BY Members
  <1>3. /\ g \in EmbedderTypes /\ SameTrees(e, g) /\ g.surface = NoSurface
    BY <1>2, SetSurface
  <1> HIDE DEF g
  <1>4. Kept(s.m, s.d, g) /\ Waiting(s.m) = {} /\ s.d = Display0
    BY <1>3, DestroyOutputKeeps
  <1> HIDE DEF s
  <1>5. /\ embedder' \in EmbedderTypes
        /\ ~embedder'.alive /\ ~embedder'.output
        /\ embedder'.surface = NoSurface
        /\ embedder'.shown = NoSurface /\ embedder'.tree = NoSurface
        /\ embedder'.sequence = 0 /\ embedder'.next_sequence = e.next_sequence
        /\ embedder'.promises = {} /\ embedder'.tree_promises = {}
    BY <1>1, <1>2 DEF Embedder0, EmbedderTypes
  <1>6. promises \in SUBSET Sequences /\ e.next_sequence \in Nat /\ e.next_sequence >= 1
    BY <1>2, Constants DEF EmbedderTypes
  <1>7. /\ s.m \in ManagerTypes
        /\ SequencesInOrder(s.m, g) /\ OwnersInOrder(s.m, g)
    BY <1>4 DEF Kept, Loose
  <1>8. SequencesInOrder(WithSatisfied(s.m, promises), embedder')
    <2>1. WithSatisfied(s.m, promises).satisfied = s.m.satisfied \cup promises
      BY <1>6, <1>7, SetSatisfied
    <2>2. \A n \in s.m.satisfied \cup promises : n < e.next_sequence
      BY <1>3, <1>7 DEF SequencesInOrder, SameTrees
    <2>3. \A n \in s.m.satisfied \cup promises : n # 0
      BY <1>6, <1>7 DEF ManagerTypes, Sequences
    <2> HIDE DEF promises
    <2> QED
      BY <1>5, <1>6, <2>1, <2>2, <2>3 DEF SequencesInOrder
  <1>9. /\ OwnersInOrder(s.m, embedder') /\ TreeHeld(s.m, embedder')
        /\ EmbeddedExists(s.m, embedder')
    BY <1>3, <1>5, <1>7 DEF OwnersInOrder, TreeHeld, EmbeddedExists
  <1> HIDE DEF promises
  <1>10. Kept(broken, s.d, embedder') /\ Waiting(broken) \subseteq Waiting(s.m)
    BY <1>4, <1>5, <1>6, <1>8, <1>9, BreakKeeps
  <1> HIDE DEF broken
  <1>11. Kept(manager', s.d, embedder') /\ Waiting(manager') \subseteq Waiting(broken)
    BY <1>1, <1>5, <1>10, InvalidateKeeps
  <1> QED
    BY <1>1, <1>4, <1>5, <1>10, <1>11 DEF Good, RootHasFrame, Display0

-----------------------------------------------------------------------------
(* The aggregator.                                                         *)

\* The imports of one resource after a walk: one more of every surface whose
\* frame uses it, none of the rest that it meets.
Walk(d, f, walked, users, rest, r) ==
  /\ users \subseteq walked
  /\ rest = walked \ users
  /\ \A id \in Children \ walked : f.imported[id][r] = d.imported[id][r]
  /\ \A id \in users : /\ f.imported[id][r] = d.imported[id][r] + 1
                       /\ f.imported[id][r] <= MaxImports
  /\ \A id \in rest : f.imported[id][r] = 0

\* Every import of a user counts, and no two are the same.
LEMMA ImportsChange ==
  ASSUME NEW d \in DisplayTypes, NEW f, NEW r \in Resources,
         NEW walked \in SUBSET Children, NEW users, NEW rest,
         Walk(d, f, walked, users, rest, r)
  PROVE  /\ Cardinality(Imports(d, rest, r)) <= Cardinality(Imports(d, Children, r))
         /\ Cardinality(Imports(f, Children, r))
              = (Cardinality(Imports(d, Children, r)) + Cardinality(users))
                  - Cardinality(Imports(d, rest, r))
  <1> DEFINE old == Imports(d, Children, r)
             unused == Imports(d, rest, r)
             kept == old \ unused
             new == {<<id, d.imported[id][r] + 1>> : id \in users}
             all == Imports(f, Children, r)
             Import == [id \in users |-> <<id, d.imported[id][r] + 1>>]
  <1>1. \A id \in Children : d.imported[id][r] \in Nat
    BY DEF DisplayTypes
  <1> USE DEF Walk
  <1>2. unused \subseteq old
    BY DEF Imports
  <1>3. all = kept \cup new
    <2>1. ASSUME NEW import \in all PROVE import \in kept \cup new
      <3>1. PICK id \in Children, n \in 1 .. MaxImports : import = <<id, n>>
        BY <2>1 DEF Imports
      <3>2. n <= f.imported[id][r]
        BY <2>1, <3>1 DEF Imports
      <3>3. CASE id \in users
        BY <1>1, <3>1, <3>2, <3>3 DEF Imports
      <3>4. CASE id \in walked \ users
        BY <3>2, <3>4
      <3>5. CASE id \notin walked
        BY <3>1, <3>2, <3>5 DEF Imports
      <3> QED
        BY <3>3, <3>4, <3>5
    <2>2. ASSUME NEW import \in kept PROVE import \in all
      <3>1. PICK id \in Children, n \in 1 .. MaxImports : import = <<id, n>>
        BY <2>2 DEF Imports
      <3>2. n <= d.imported[id][r] /\ id \notin walked \ users
        BY <2>2, <3>1 DEF Imports
      <3> QED
        BY <1>1, <3>1, <3>2 DEF Imports
    <2>3. ASSUME NEW import \in new PROVE import \in all
      <3>1. PICK id \in users : import = <<id, d.imported[id][r] + 1>>
        BY <2>3
      <3>2. id \in Children /\ d.imported[id][r] + 1 \in 1 .. MaxImports
        BY <1>1, Constants
      <3> QED
        BY <3>1, <3>2 DEF Imports
    <2> QED
      BY <2>1, <2>2, <2>3
  <1>4. kept \cap new = {}
    BY <1>1 DEF Imports
  <1>5. IsFiniteSet(users) /\ Cardinality(users) \in Nat
    BY Constants, FS_Subset, FS_CardinalityType
  <1>6. IsFiniteSet(new) /\ Cardinality(new) = Cardinality(users)
    <2>1. Import \in Injection(users, new) /\ Import \in Surjection(users, new)
      BY DEF Injection, Surjection, IsInjective
    <2> HIDE DEF Import, new
    <2> QED
      BY <1>5, <2>1, FS_Surjection
  <1>7. /\ IsFiniteSet(old) /\ IsFiniteSet(unused)
        /\ Cardinality(old) \in Nat /\ Cardinality(unused) \in Nat
    BY Imports_
  <1> HIDE DEF old, unused, new, all
  <1>8. /\ Cardinality(unused) <= Cardinality(old)
        /\ IsFiniteSet(kept)
        /\ Cardinality(kept) = Cardinality(old) - Cardinality(unused)
    BY <1>2, <1>7, Without, FS_Subset
  <1> HIDE DEF kept
  <1>9. Cardinality(all) = Cardinality(kept) + Cardinality(new)
    <2>1. Cardinality(kept) \in Nat /\ Cardinality(new) \in Nat
      BY <1>6, <1>8, FS_CardinalityType
    <2>2. Cardinality(kept \cup new)
            = Cardinality(kept) + Cardinality(new) - Cardinality(kept \cap new)
      BY <1>6, <1>8, FS_Union
    <2>3. Cardinality(kept \cap new) = 0
      BY <1>4, FS_EmptySet
    <2> QED
      BY <1>3, <2>1, <2>2, <2>3
  <1>10. /\ Cardinality(unused) <= Cardinality(old)
         /\ Cardinality(all) = (Cardinality(old) + Cardinality(users)) - Cardinality(unused)
    BY <1>5, <1>6, <1>7, <1>8, <1>9
  <1> QED
    BY <1>10 DEF old, unused, all

\* References that are taken before others are given back.
LEMMA RefThenUnref ==
  ASSUME NEW m \in ManagerTypes, NEW uses \in [Resources -> Nat], Counted(m, uses),
         NEW met \in [Resources -> Nat], NEW unused \in [Resources -> Nat],
         \A r \in Resources : met[r] > 0 => uses[r] > 0,
         \A r \in Resources : unused[r] <= uses[r] + met[r],
         NEW drawn, drawn = UnrefResources(RefResources(m, met), unused)
  PROVE  /\ drawn \in ManagerTypes
         /\ SameSurfaces(m, drawn)
         /\ Counted(drawn, [r \in Resources |-> (uses[r] + met[r]) - unused[r]])
  <1> DEFINE more == [r \in Resources |-> uses[r] + met[r]]
             referenced == RefResources(m, met)
  <1>1. /\ more \in [Resources -> Nat]
        /\ \A r \in Resources : more[r] = uses[r] + met[r]
    OBVIOUS
  <1>2. /\ referenced \in ManagerTypes
        /\ SameSurfaces(m, referenced)
        /\ Counted(referenced, more)
    BY Ref
  <1>3. drawn = UnrefResources(referenced, unused)
    OBVIOUS
  <1> HIDE DEF referenced, more
  <1>4. /\ drawn \in ManagerTypes
        /\ SameSurfaces(referenced, drawn)
        /\ Counted(drawn, [r \in Resources |-> more[r] - unused[r]])
    <2>1. referenced.factory => \A r \in Resources : unused[r] <= more[r]
      BY <1>1
    <2> QED
      BY <1>1, <1>2, <1>3, <2>1, Unref
  <1>5. SameSurfaces(m, drawn)
    BY <1>2, <1>4 DEF SameSurfaces
  <1> QED
    BY <1>1, <1>4, <1>5 DEF Counted

\* How often a walk meets a resource, and how many imports it finds unused.
Holders(walked, held, r) == {id \in walked : r \in held[id]}
Others(walked, held, r) == {id \in walked : r \notin held[id]}
Met(walked, held) == [r \in Resources |-> Cardinality(Holders(walked, held, r))]
Unused(d, walked, held) ==
  [r \in Resources |-> Cardinality(Imports(d, Others(walked, held, r), r))]

\* A walk counts what it meets and gives back what it no longer meets.
LEMMA WalkKeeps ==
  ASSUME NEW m \in ManagerTypes, NEW d \in DisplayTypes, ImportsKnown(d), Accounted(m, d),
         NEW walked \in SUBSET Children,
         NEW held, \A id \in walked : held[id] = ResourcesIn(m.surfaces[id].frame),
         NEW f \in DisplayTypes,
         \A id \in Children \ walked : f.imported[id] = d.imported[id],
         \A id \in walked, r \in Resources :
           f.imported[id][r] = IF r \in held[id] THEN d.imported[id][r] + 1 ELSE 0,
         \A id \in walked, r \in Resources : f.imported[id][r] <= MaxImports,
         NEW drawn,
         drawn = UnrefResources(RefResources(m, Met(walked, held)), Unused(d, walked, held))
  PROVE  /\ drawn \in ManagerTypes
         /\ SameSurfaces(m, drawn)
         /\ Accounted(drawn, f)
  <1> DEFINE Its(r) == Holders(walked, held, r)
             Rest(r) == Others(walked, held, r)
             met == Met(walked, held)
             unused == Unused(d, walked, held)
             uses == Uses(m, d)
  <1>1. \A r \in Resources : Its(r) \subseteq Users(m, r)
    BY DEF Users, Holders
  <1>2. \A r \in Resources :
          /\ Cardinality(Its(r)) \in Nat
          /\ Cardinality(Its(r)) <= Cardinality(Users(m, r))
    BY <1>1, Users_, Without
  <1>3. uses \in [Resources -> Nat] /\ Counted(m, uses)
    BY UsesType DEF Accounted
  <1>4. met \in [Resources -> Nat] /\ unused \in [Resources -> Nat]
    BY <1>2, Imports_ DEF Met, Unused
  <1>5. \A r \in Resources : met[r] > 0 => uses[r] > 0
    BY <1>2, Users_, Imports_ DEF Uses, Met
  <1>8. \A r \in Resources :
          /\ Cardinality(Imports(d, Rest(r), r)) <= Cardinality(Imports(d, Children, r))
          /\ Cardinality(Imports(f, Children, r))
               = (Cardinality(Imports(d, Children, r)) + Cardinality(Its(r)))
                   - Cardinality(Imports(d, Rest(r), r))
    <2> TAKE r \in Resources
    <2> DEFINE users == Its(r)
               rest == Rest(r)
    <2>1. Walk(d, f, walked, users, rest, r)
      BY DEF Walk, Holders, Others
    <2> HIDE DEF users, rest
    <2>2. /\ Cardinality(Imports(d, rest, r)) <= Cardinality(Imports(d, Children, r))
          /\ Cardinality(Imports(f, Children, r))
               = (Cardinality(Imports(d, Children, r)) + Cardinality(users))
                   - Cardinality(Imports(d, rest, r))
      BY <2>1, ImportsChange
    <2> QED
      BY <2>2 DEF users, rest
  <1>9. \A r \in Resources :
          /\ unused[r] = Cardinality(Imports(d, Rest(r), r))
          /\ met[r] = Cardinality(Its(r))
          /\ uses[r] = Cardinality(Users(m, r)) + Cardinality(Imports(d, Children, r))
    BY DEF Uses, Met, Unused
  <1>10. \A r \in Resources :
           /\ unused[r] \in Nat /\ met[r] \in Nat /\ Cardinality(Users(m, r)) \in Nat
           /\ Cardinality(Imports(d, Children, r)) \in Nat
    BY <1>4, Users_, Imports_
  <1>11. \A r \in Resources : unused[r] <= uses[r] + met[r]
    <2> HIDE DEF unused, uses, met, Rest, Its
    <2> QED
      BY <1>8, <1>9, <1>10
  <1>12. /\ drawn \in ManagerTypes
         /\ SameSurfaces(m, drawn)
         /\ Counted(drawn, [r \in Resources |-> (uses[r] + met[r]) - unused[r]])
    <2>1. drawn = UnrefResources(RefResources(m, met), unused)
      OBVIOUS
    <2> HIDE DEF unused, uses, met
    <2> QED
      BY <1>3, <1>4, <1>5, <1>11, <2>1, RefThenUnref
  <1>13. \A r \in Resources : Uses(drawn, f)[r] = (uses[r] + met[r]) - unused[r]
    <2> TAKE r \in Resources
    <2>2. Uses(drawn, f)[r] = Cardinality(Users(drawn, r)) + Cardinality(Imports(f, Children, r))
      BY DEF Uses
    <2>3. Users(drawn, r) = Users(m, r)
      BY <1>12 DEF Users, SameSurfaces
    <2> HIDE DEF unused, uses, met, Rest, Its
    <2> QED
      BY <1>8, <1>9, <1>10, <2>2, <2>3
  <1>14. Accounted(drawn, f)
    <2> HIDE DEF unused, uses, met
    <2> QED
      BY <1>12, <1>13 DEF Accounted, Counted
  <1> QED
    BY <1>12, <1>14

\* DrawAndSwap: after it nobody waits, for all that waited is met or dropped.
LEMMA DisplayDrawsKeeps ==
  ASSUME Good(manager, display, embedder), DisplayDraws
  PROVE  Good(manager', display', embedder')
  <1> DEFINE m == manager
             d == display
             contained == Contained(m, d.root)
             walked == {id \in contained \cap Children : HasFrame(m, id)}
             held == [id \in Children |->
                        IF id \in walked THEN ResourcesIn(m.surfaces[id].frame) ELSE {}]
             imports == [id \in Children |->
                           IF id \notin walked THEN d.imported[id]
                           ELSE [r \in Resources |->
                                   IF r \in held[id] THEN d.imported[id][r] + 1 ELSE 0]]
             drawn == UnrefResources(RefResources(m, Met(walked, held)), Unused(d, walked, held))
             walked_d == [d EXCEPT !.imported = imports,
                                   !.children = @ \cup {id \in contained : HasFrame(m, id)}]
             gone == d.previous \ contained
             c == DestroyChildren(drawn, walked_d, gone)
             f == Forget(walked_d, gone)
             drawn_d == [f EXCEPT !.previous = contained, !.needs_draw = FALSE]
             met == d.previous \cup contained
  <1>1. /\ manager' = RunDrawCallbacks(c, met)
        /\ display' = drawn_d
        /\ embedder' = embedder
        /\ d.root # NoSurface
        /\ \A id \in Children, r \in Resources : drawn_d.imported[id][r] <= MaxImports
    BY DEF DisplayDraws, CanDraw, Aggregate, Met, Unused, Holders, Others
  <1>2. /\ m \in ManagerTypes /\ d \in DisplayTypes /\ ImportsKnown(d) /\ Accounted(m, d)
        /\ Kept(m, d, embedder)
        /\ Waiting(m) \subseteq d.previous \cup {d.root}
        /\ RootHasFrame(m, d)
    BY Members DEF Kept, Loose
  <1>3. /\ contained \in SUBSET Ids /\ d.root \in contained
        /\ d.previous \in SUBSET Ids
    BY <1>1, <1>2, ReachedByAll DEF Contained, Reached, DisplayTypes, Ids
  <1> HIDE DEF contained
  <1>4. walked \in SUBSET Children /\ walked \subseteq contained
    OBVIOUS
  <1>5. /\ \A id \in walked : held[id] = ResourcesIn(m.surfaces[id].frame)
        /\ \A id \in Children \ walked : imports[id] = d.imported[id]
        /\ \A id \in walked, r \in Resources :
             imports[id][r] = IF r \in held[id] THEN d.imported[id][r] + 1 ELSE 0
    BY <1>4
  <1>6. imports \in [Children -> [Resources -> Nat]]
    <2> HIDE DEF walked, held
    <2>1. \A id \in Children, r \in Resources : d.imported[id][r] \in Nat
      BY <1>2 DEF DisplayTypes
    <2>2. \A id \in Children : d.imported[id] \in [Resources -> Nat]
      BY <1>2 DEF DisplayTypes
    <2> QED
      BY <2>1, <2>2
  <1> HIDE DEF imports
  <1>7. /\ walked_d \in DisplayTypes
        /\ walked_d.imported = imports
        /\ walked_d.children = d.children \cup {id \in contained : HasFrame(m, id)}
        /\ walked_d.root = d.root /\ walked_d.locked = d.locked
        /\ walked_d.previous = d.previous
    BY <1>2, <1>3, <1>6 DEF DisplayTypes
  <1> HIDE DEF walked_d
  <1>8. gone \in SUBSET Ids /\ walked \cap gone = {}
    BY <1>3, <1>4
  <1>9. \A id \in walked, r \in Resources : imports[id][r] <= MaxImports
    <2>1. \A id \in walked : drawn_d.imported[id] = imports[id]
      <3> HIDE DEF walked, gone
      <3>1. drawn_d.imported = f.imported
        BY DEF Forget
      <3>2. \A id \in walked : f.imported[id] = imports[id]
        BY <1>4, <1>7, <1>8 DEF Forget, DisplayTypes
      <3> QED
        BY <3>1, <3>2
    <2> HIDE DEF drawn_d, walked
    <2> QED
      BY <1>1, <1>4, <2>1
  <1>10. ImportsKnown(walked_d)
    <2>1. \A id \in Children : id \in walked => id \in walked_d.children
      BY <1>7
    <2>2. d.children \subseteq walked_d.children
      BY <1>7
    <2> HIDE DEF walked, held
    <2> QED
      BY <1>2, <1>5, <1>7, <1>9, <2>1, <2>2 DEF ImportsKnown
  <1> HIDE DEF walked, held, gone
  <1>11. /\ drawn \in ManagerTypes
         /\ SameSurfaces(m, drawn)
         /\ Accounted(drawn, walked_d)
    <2>1. /\ \A id \in Children \ walked : walked_d.imported[id] = d.imported[id]
          /\ \A id \in walked, r \in Resources :
               walked_d.imported[id][r] = IF r \in held[id] THEN d.imported[id][r] + 1 ELSE 0
          /\ \A id \in walked, r \in Resources : walked_d.imported[id][r] <= MaxImports
      BY <1>5, <1>7, <1>9
    <2> QED
      BY <1>2, <1>4, <1>5, <1>7, <2>1, WalkKeeps
  <1> HIDE DEF drawn
  <1>12. /\ c \in ManagerTypes
         /\ SameSurfaces(drawn, c)
         /\ f \in DisplayTypes
         /\ f.root = d.root /\ f.locked = d.locked
         /\ ImportsKnown(f)
         /\ Accounted(c, f)
    BY <1>7, <1>8, <1>10, <1>11, Release
  <1> HIDE DEF c, f
  <1>13. SameButCallbacks(m, c)
    BY <1>11, <1>12 DEF SameSurfaces, SameButCallbacks, Waiting
  <1>14. /\ drawn_d \in DisplayTypes
         /\ drawn_d.imported = f.imported /\ drawn_d.children = f.children
         /\ drawn_d.root = d.root /\ drawn_d.locked = d.locked
    BY <1>3, <1>12 DEF DisplayTypes
  <1> HIDE DEF drawn_d
  <1>15. ImportsKnown(drawn_d) /\ Accounted(c, drawn_d)
    BY <1>12, <1>14, SameImports
  <1>16. /\ Kept(c, drawn_d, embedder)
         /\ \A id : HasFrame(c, id) <=> HasFrame(m, id)
    BY <1>2, <1>12, <1>13, <1>14, <1>15, StillKept
  <1>17. met \in SUBSET Ids /\ Waiting(m) \subseteq met
    BY <1>2, <1>3
  <1> HIDE DEF met
  <1>18. /\ Kept(manager', drawn_d, embedder)
         /\ \A id : HasFrame(manager', id) <=> HasFrame(c, id)
         /\ Waiting(manager') = Waiting(c) \ met
    BY <1>1, <1>16, <1>17, SkipKept
  <1>19. Waiting(manager') = {}
    BY <1>13, <1>17, <1>18 DEF SameButCallbacks
  <1>20. RootHasFrame(manager', drawn_d)
    BY <1>2, <1>14, <1>16, <1>18 DEF RootHasFrame
  <1> QED
    BY <1>1, <1>14, <1>18, <1>19, <1>20, Members DEF Good

-----------------------------------------------------------------------------
(* The theorems.                                                           *)

\* SameInvariant, of the next state.
LEMMA SameInvariantNext == IInv' <=> Good(manager, display, embedder)'
  BY SameInvariant, PTL

\* Every step keeps the invariant.
LEMMA StepKeeps == IInv /\ [Next]_vars => IInv'
  <1> SUFFICES ASSUME IInv, [Next]_vars
               PROVE  Good(manager', display', embedder')
    BY SameInvariantNext
  <1>1. Good(manager, display, embedder)
    BY SameInvariant
  <1>2. ASSUME NEW id \in Children, CreateSurface(id)
        PROVE  Good(manager', display', embedder')
    BY <1>1, <1>2, CreateSurfaceKeeps
  <1>3. ASSUME NEW id \in Children, SubmitCompositorFrame(id)
        PROVE  Good(manager', display', embedder')
    BY <1>1, <1>3, SubmitCompositorFrameKeeps
  <1>4. ASSUME NEW id \in Children, DestroySurface(id)
        PROVE  Good(manager', display', embedder')
    BY <1>1, <1>4, DestroySurfaceKeeps
  <1>5. CASE ChildGone
    BY <1>1, <1>5, ChildGoneKeeps
  <1>6. ASSUME NEW id \in Children \cup {NoSurface}, ShowSurface(id)
        PROVE  Good(manager', display', embedder')
    BY <1>1, <1>6, ShowSurfaceKeeps
  <1>7. CASE MainFrameAborted
    BY <1>1, <1>7, MainFrameAbortedKeeps
  <1>8. CASE Commit
    BY <1>1, <1>8, CommitKeeps
  <1>9. CASE SwapBuffers
    BY <1>1, <1>9, SwapBuffersKeeps
  <1>10. CASE LoseOutputSurface
    BY <1>1, <1>10, LoseOutputSurfaceKeeps
  <1>11. CASE CreateOutputSurface
    BY <1>1, <1>11, CreateOutputSurfaceKeeps
  <1>12. CASE EmbedderGone
    BY <1>1, <1>12, EmbedderGoneKeeps
  <1>13. CASE DisplayDraws
    BY <1>1, <1>13, DisplayDrawsKeeps
  <1>14. CASE UNCHANGED vars
    BY <1>1, <1>14 DEF vars
  <1> QED
    BY <1>2, <1>3, <1>4, <1>5, <1>6, <1>7, <1>8, <1>9, <1>10, <1>11, <1>12, <1>13, <1>14
    DEF Next

\* The inductive invariant of Surfaces holds in every state: whatever the order
\* in which the child, the embedder and the display create, show, submit, draw
\* and destroy.
THEOREM IInvHolds == Spec => []IInv
  BY InitKeeps, StepKeeps, PTL DEF Spec

\* SurfaceResourceHolder's counts are exact, although the surfaces and the
\* display's aggregator each count their own uses: a resource is back with the
\* child exactly when no frame and no import uses it.
THEOREM ResourcesAreAccounted == Spec => []ResourcesAccounted
  <1>1. IInv => ResourcesAccounted
    BY DEF IInv
  <1> QED
    BY <1>1, IInvHolds, PTL

\* Destruction dependencies: what the embedder's frame shows exists until the
\* first frame without it, whoever destroyed it, unless an aborted main frame
\* broke the promises.
THEOREM EmbeddedExist == Spec => []EmbeddedSurfacesExist
  <1>1. IInv => EmbeddedSurfacesExist
    BY DEF IInv
  <1> QED
    BY <1>1, IInvHolds, PTL

\* GarbageCollectSurfaces runs often enough: no destroyed surface is kept that
\* nothing live reaches.
THEOREM NothingIsLeaked == Spec => []NothingLeaks
  <1>1. IInv => NothingLeaks
    BY DEF IInv
  <1> QED
    BY <1>1, IInvHolds, PTL

\* No submitter waits for a frame that the display will not meet, and a display
\* that is not locked has a frame to draw.
THEOREM CallbacksAreTracked == Spec => []CallbacksTracked
  <1>1. IInv => CallbacksTracked
    BY DEF IInv
  <1> QED
    BY <1>1, IInvHolds, PTL
=============================================================================
