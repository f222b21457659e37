---------------------------- MODULE SurfaceManager ----------------------------
(***************************************************************************)
(* SurfaceManager, Surface, SurfaceFactory and SurfaceResourceHolder       *)
(* (cc/surfaces): what their methods do to the record m of all surfaces    *)
(* and of the resources that one child's factory has received.             *)
(*                                                                         *)
(* Root surfaces belong to the embedder and carry no resources; child      *)
(* surfaces belong to the factory of one child.  A frame is the set of     *)
(* surfaces it shows and the set of resources it uses.                     *)
(***************************************************************************)
EXTENDS Integers, FiniteSets

CONSTANTS
  Roots,          \* the ids of the embedder's surfaces
  Children,       \* the ids of the child's surfaces
  Resources,      \* of the child
  MaxSequence,    \* the bound on the embedder's surface sequences
  NoFrame,
  NoSurface

Ids == Roots \cup Children
Sequences == 1 .. MaxSequence
Frames == [refs : SUBSET Children, resources : SUBSET Resources]

Surface0 == [state |-> "none", frame |-> NoFrame, callback |-> FALSE, dependencies |-> {}]
Manager0 ==
  [surfaces |-> [id \in Ids |-> Surface0],
   satisfied |-> {},
   namespace_valid |-> TRUE,
   factory |-> TRUE,
   \* SurfaceResourceHolder's counts; 0 is a resource that is not in its map.
   received |-> [r \in Resources |-> 0],
   alive |-> [r \in Resources |-> 0],
   \* What the child has sent and not got back.
   in_flight |-> [r \in Resources |-> 0]]

SurfaceTypes ==
  [state : {"none", "owned", "destroyed", "deleted"}, frame : Frames \cup {NoFrame},
   callback : BOOLEAN, dependencies : SUBSET Sequences]
ManagerTypes ==
  [surfaces : [Ids -> SurfaceTypes], satisfied : SUBSET Sequences,
   namespace_valid : BOOLEAN, factory : BOOLEAN, received : [Resources -> Nat],
   alive : [Resources -> Nat], in_flight : [Resources -> Nat]]

\* In surface_map_ of the manager.
Exists(m, id) == id \in Ids /\ m.surfaces[id].state \in {"owned", "destroyed"}
HasFrame(m, id) == Exists(m, id) /\ m.surfaces[id].frame # NoFrame
ReferencedSurfaces(m, id) ==
  IF m.surfaces[id].frame = NoFrame THEN {} ELSE m.surfaces[id].frame.refs
ResourcesIn(frame) == IF frame = NoFrame THEN {} ELSE frame.resources
OnceEach(resources) == [r \in Resources |-> IF r \in resources THEN 1 ELSE 0]

-----------------------------------------------------------------------------
(* SurfaceResourceHolder.                                                  *)

ReceiveFromChild(m, resources) ==
  [m EXCEPT !.received = [r \in Resources |-> @[r] + OnceEach(resources)[r]],
            !.alive = [r \in Resources |-> @[r] + OnceEach(resources)[r]],
            !.in_flight = [r \in Resources |-> @[r] + OnceEach(resources)[r]]]

RefResources(m, counts) ==
  IF m.factory THEN [m EXCEPT !.alive = [r \in Resources |-> @[r] + counts[r]]] ELSE m

\* Seeded bug: the factory's holder is used after the factory.
UnrefWithoutFactory(m, counts) ==
  [m EXCEPT !.alive = [r \in Resources |-> @[r] - counts[r]]]

\* Seeded bug: only the references that are dropped are told of.
ReturnDropped(m, counts, r) == counts[r]

\* How often a resource is returned: as many times as it was received.
ReturnCount(m, counts, r) == m.received[r]

\* The factory is reached through a weak pointer.  A resource goes back to the
\* child when nothing holds it.
UnrefResources(m, counts) ==
  LET returned == {r \in Resources : /\ m.received[r] > 0
                                     /\ counts[r] > 0
                                     /\ m.alive[r] = counts[r]}
  IN IF ~m.factory THEN m
     ELSE [m EXCEPT
       !.alive = [r \in Resources |-> @[r] - counts[r]],
       !.received = [r \in Resources |-> IF r \in returned THEN 0 ELSE @[r]],
       !.in_flight = [r \in Resources |->
                       IF r \in returned THEN @[r] - ReturnCount(m, counts, r) ELSE @[r]]]

-----------------------------------------------------------------------------
(* SurfaceManager::GarbageCollectSurfaces.                                 *)

\* What the surfaces no longer await: once the namespace of the embedder is
\* gone, anything.
Dropped(m) == IF m.namespace_valid THEN m.satisfied ELSE Sequences

\* Every surface drops these.  A sequence satisfies once.
SatisfyDestructionDependencies(m) ==
  [m EXCEPT !.surfaces = [id \in Ids |->
                            [m.surfaces[id] EXCEPT !.dependencies = @ \ Dropped(m)]],
            !.satisfied = @ \ UNION {m.surfaces[id].dependencies : id \in Ids}]

GCRoots(m) ==
  {id \in Ids : /\ Exists(m, id)
                /\ \/ m.surfaces[id].state = "owned"
                   \/ m.surfaces[id].dependencies # {}}

\* What is reached from a set of surfaces through the frames, which show only
\* children: the least set with them that has what its surfaces show.
Closed(m, ids) ==
  \A id \in ids : \A ref \in ReferencedSurfaces(m, id) : Exists(m, ref) => ref \in ids
ReachableFrom(m, roots) ==
  LET closed == {ids \in SUBSET (Children \ roots) : Closed(m, roots \cup ids)}
  IN {id \in Ids : id \in roots \/ \A ids \in closed : id \in ids}

LiveSurfaces(m) == ReachableFrom(m, GCRoots(m))

\* ~Surface of each of them.
DeleteSurfaces(m, ids) ==
  LET counts == [r \in Resources |->
                   Cardinality({id \in ids : r \in ResourcesIn(m.surfaces[id].frame)})]
      deleted == [Surface0 EXCEPT !.state = "deleted"]
  IN UnrefResources([m EXCEPT !.surfaces = [id \in Ids |-> IF id \in ids THEN deleted ELSE @[id]]],
                    counts)

GarbageCollectSurfaces(m) ==
  LET satisfied == SatisfyDestructionDependencies(m)
      live == LiveSurfaces(satisfied)
  IN DeleteSurfaces(satisfied, {id \in Ids : m.surfaces[id].state = "destroyed"} \ live)

-----------------------------------------------------------------------------
(* SurfaceManager's and SurfaceFactory's other methods.                    *)

Create(m, id) == [m EXCEPT !.surfaces[id].state = "owned"]

Destroy(m, id) == GarbageCollectSurfaces([m EXCEPT !.surfaces[id].state = "destroyed"])

\* ~SurfaceFactory destroys what it owns; its weak pointers then are null.
DestroyFactory(m) ==
  LET Destroyed(surface) == IF surface.state = "owned" THEN [surface EXCEPT !.state = "destroyed"]
                            ELSE surface
      all == [m EXCEPT !.surfaces =
                [id \in Ids |-> IF id \in Children THEN Destroyed(m.surfaces[id])
                                ELSE m.surfaces[id]]]
  IN [GarbageCollectSurfaces(all) EXCEPT
        !.factory = FALSE,
        !.received = [r \in Resources |-> 0],
        !.alive = [r \in Resources |-> 0],
        !.in_flight = [r \in Resources |-> 0]]

AddDestructionDependency(m, id, sequence) ==
  [m EXCEPT !.surfaces[id].dependencies = @ \cup {sequence}]

DidSatisfySequences(m, sequences) ==
  GarbageCollectSurfaces([m EXCEPT !.satisfied = @ \cup sequences])

InvalidateSurfaceIdNamespace(m) ==
  GarbageCollectSurfaces([m EXCEPT !.namespace_valid = FALSE])

\* Draw callbacks run whether or not the surface was drawn.
RunDrawCallbacks(m, ids) ==
  [m EXCEPT !.surfaces = [id \in Ids |->
                            [m.surfaces[id] EXCEPT !.callback = @ /\ id \notin ids]]]

\* The new frame's resources are received before the old ones are let go.
ReplaceFrame(m, id, frame) ==
  LET received == ReceiveFromChild(m, ResourcesIn(frame))
  IN [UnrefResources(received, OnceEach(ResourcesIn(m.surfaces[id].frame))) EXCEPT
        !.surfaces[id].frame = frame]

\* Seeded bug: frames that only let go of surfaces collect nothing.
NeedsCollectionIfSatisfied(m, id, frame, sequences) == sequences # {}

\* Whether QueueFrame tells the manager.
NeedsCollection(m, id, frame, sequences) ==
  \/ sequences # {}
  \/ ReferencedSurfaces(m, id) # (IF frame = NoFrame THEN {} ELSE frame.refs)

\* Surface::QueueFrame.  The callback of the frame before is run.
QueueFrame(m, id, frame, callback, sequences) ==
  LET replaced == [ReplaceFrame(m, id, frame) EXCEPT !.surfaces[id].callback = callback]
  IN IF NeedsCollection(m, id, frame, sequences)
     THEN DidSatisfySequences(replaced, sequences)
     ELSE replaced
=============================================================================
