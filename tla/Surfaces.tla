------------------------------- MODULE Surfaces -------------------------------
(***************************************************************************)
(* Surfaces (cc/surfaces) at work: a child that submits frames to surfaces *)
(* of its factory, an embedder that shows one of them in a SurfaceLayer    *)
(* and submits frames of its own through SurfaceDisplayOutputSurface, and  *)
(* the Display that draws the embedder's surface with SurfaceAggregator.   *)
(*                                                                         *)
(* Everything runs on one thread; the hazard is the order in which the     *)
(* parties create, show, replace and destroy surfaces.  The embedder is    *)
(* the user interface's compositor: SingleThreadProxy, which commits to    *)
(* the active tree.                                                        *)
(***************************************************************************)
EXTENDS SurfaceManager

CONSTANTS
  MaxInFlight,    \* the bound on uses of a resource sent by the child
  MaxImports      \* the bound on draws of the same resource

ASSUME SurfacesAssumption ==
  /\ IsFiniteSet(Ids)
  /\ Roots \cap Children = {}
  /\ NoSurface \notin Ids
  /\ NoFrame \notin Frames
  /\ {MaxSequence, MaxInFlight, MaxImports} \subseteq Nat

VARIABLES
  manager,     \* see SurfaceManager
  display,     \* Display, its aggregator and the children of its resource provider
  embedder     \* the compositor of the embedder and its output surface

vars == <<manager, display, embedder>>

Display0 ==
  [root |-> NoSurface,
   locked |-> TRUE,              \* root_surface_resources_locked_
   needs_draw |-> FALSE,
   previous |-> {},              \* previous_contained_surfaces_
   children |-> {},              \* surface_id_to_resource_child_id_
   imported |-> [id \in Children |-> [r \in Resources |-> 0]]]

Embedder0 ==
  [alive |-> TRUE,
   next_sequence |-> 1,
   \* The main thread's tree: the surface shown, the sequence it awaits, and
   \* the sequences that queued swap promises will satisfy.
   shown |-> NoSurface, sequence |-> 0, promises |-> {},
   \* The active tree: the surface shown, the promises, and whether its size is
   \* other than display_size_ of the output surface.
   tree |-> NoSurface, tree_promises |-> {}, resized |-> FALSE,
   \* The output surface; committed: a tree was committed since it is there.
   output |-> TRUE, committed |-> FALSE, surface |-> NoSurface,
   \* History: promises were broken by an aborted main frame since the commit.
   broken |-> FALSE]

DisplayTypes ==
  [root : Roots \cup {NoSurface}, locked : BOOLEAN, needs_draw : BOOLEAN,
   previous : SUBSET Ids, children : SUBSET Ids, imported : [Children -> [Resources -> Nat]]]
EmbedderTypes ==
  [alive : BOOLEAN, next_sequence : 1 .. MaxSequence + 1, shown : Children \cup {NoSurface},
   sequence : Sequences \cup {0}, promises : SUBSET Sequences,
   tree : Children \cup {NoSurface}, tree_promises : SUBSET Sequences, resized : BOOLEAN,
   output : BOOLEAN, committed : BOOLEAN, surface : Roots \cup {NoSurface}, broken : BOOLEAN]

TypeOK ==
  /\ manager \in ManagerTypes
  /\ display \in DisplayTypes
  /\ embedder \in EmbedderTypes

-----------------------------------------------------------------------------
(* Display and SurfaceAggregator, on records m of the manager and d of the *)
(* display.                                                                *)

\* The imports of a resource that the display has of surfaces ids: <<id, n>> is
\* the nth of id.
Imports(d, ids, r) ==
  {import \in (ids \cap Children) \X (1 .. MaxImports) : import[2] <= d.imported[import[1]][r]}

\* ResourceProvider::DestroyChild of each: what it imported goes back.
DestroyChildren(m, d, ids) ==
  UnrefResources(m, [r \in Resources |-> Cardinality(Imports(d, ids \cap d.children, r))])
Forget(d, ids) ==
  [d EXCEPT !.children = @ \ ids,
            !.imported = [id \in Children |-> IF id \in ids THEN [r \in Resources |-> 0] ELSE @[id]]]

\* Seeded bug: a root without a frame is not locked.
LockedIfMissing(m, root) == ~Exists(m, root)

\* UpdateRootSurfaceResourcesLocked.
RootLocked(m, root) == ~HasFrame(m, root)

\* Display::SetSurfaceId.
SetSurfaceId(m, d, id) ==
  IF d.root = id THEN d
  ELSE [d EXCEPT !.root = id, !.locked = RootLocked(m, id), !.needs_draw = TRUE]

\* SurfaceFactory::SubmitCompositorFrame with Display::OnSurfaceDamaged: the
\* frame of a surface that is not displayed is skipped at once.
Submit(m, d, id, frame, callback, sequences) ==
  LET queued == QueueFrame(m, id, frame, callback, sequences)
      visible == id \in d.previous \/ id = d.root
      released == IF id \in d.previous /\ ResourcesIn(frame) = {} THEN {id} ELSE {}
      shown == [Forget(d, released) EXCEPT
                  !.needs_draw = @ \/ visible,
                  !.locked = IF id = d.root THEN RootLocked(queued, id) ELSE @]
  IN [m |-> IF visible THEN DestroyChildren(queued, d, released)
            ELSE RunDrawCallbacks(queued, {id}),
      d |-> shown]

\* What PrewalkTree meets from the root on.  A frame has one quad for each
\* surface it shows, and at most one surface (see Submits).
Contained(m, root) == ReachableFrom(m, {root})

\* Aggregate: every frame met is referenced and imported once more, imports
\* that its frame no longer uses go back, and surfaces that were drawn before
\* and are no longer met are forgotten.  Then all callbacks are run, as drawn
\* or as skipped.
Aggregate(m, d) ==
  LET contained == Contained(m, d.root)
      walked == {id \in contained \cap Children : HasFrame(m, id)}
      held == [id \in Children |-> IF id \in walked THEN ResourcesIn(m.surfaces[id].frame) ELSE {}]
      unused == [r \in Resources |->
                   Cardinality(Imports(d, {id \in walked : r \notin held[id]}, r))]
      imports == [id \in Children |->
                    IF id \notin walked THEN d.imported[id]
                    ELSE [r \in Resources |-> IF r \in held[id] THEN d.imported[id][r] + 1 ELSE 0]]
      referenced == RefResources(m, [r \in Resources |-> Cardinality({id \in walked : r \in held[id]})])
      drawn == UnrefResources(referenced, unused)
      walked_d == [d EXCEPT !.imported = imports,
                            !.children = @ \cup {id \in contained : HasFrame(m, id)}]
      gone == d.previous \ contained
  IN [m |-> RunDrawCallbacks(DestroyChildren(drawn, walked_d, gone), d.previous \cup contained),
      d |-> [Forget(walked_d, gone) EXCEPT !.previous = contained, !.needs_draw = FALSE]]

\* ~Display: its resource provider returns all it has.
DestroyDisplay(m, d) ==
  [m |-> RunDrawCallbacks(DestroyChildren(m, d, d.children), d.previous), d |-> Display0]

\* DisplayScheduler draws only then.
CanDraw == display.root # NoSurface /\ display.needs_draw /\ ~display.locked

DisplayDraws ==
  /\ CanDraw
  /\ LET s == Aggregate(manager, display)
     IN /\ \A id \in Children, r \in Resources : s.d.imported[id][r] <= MaxImports
        /\ manager' = s.m
        /\ display' = s.d
  /\ UNCHANGED embedder

-----------------------------------------------------------------------------
(* The child.                                                              *)

\* Frames of one quad at most.
ChildFrames(id) ==
  {frame \in Frames : /\ Cardinality(frame.refs) + Cardinality(frame.resources) <= 1
                      /\ id \notin frame.refs}

CreateSurface(id) ==
  /\ manager.factory
  /\ manager.surfaces[id].state = "none"
  /\ manager' = Create(manager, id)
  /\ UNCHANGED <<display, embedder>>

SubmitCompositorFrame(id) ==
  /\ manager.surfaces[id].state = "owned"
  /\ \E frame \in ChildFrames(id) :
       /\ \A r \in ResourcesIn(frame) : manager.in_flight[r] < MaxInFlight
       /\ LET s == Submit(manager, display, id, frame, TRUE, {})
          IN manager' = s.m /\ display' = s.d
  /\ UNCHANGED embedder

DestroySurface(id) ==
  /\ manager.surfaces[id].state = "owned"
  /\ manager' = Destroy(manager, id)
  /\ UNCHANGED <<display, embedder>>

ChildGone ==
  /\ manager.factory
  /\ manager' = DestroyFactory(manager)
  /\ UNCHANGED <<display, embedder>>

-----------------------------------------------------------------------------
(* The embedder.                                                           *)

\* Seeded bug: the old surface is let go of at once.
SatisfyAtOnce(m, e) ==
  [m |-> IF e.sequence = 0 THEN m ELSE DidSatisfySequences(m, {e.sequence}),
   e |-> [e EXCEPT !.sequence = 0]]

\* SatisfyDestroySequence: the old surface is let go of by the frame of the
\* next commit.
QueuePromise(m, e) ==
  [m |-> m,
   e |-> [e EXCEPT !.promises = @ \cup ({e.sequence} \ {0}), !.sequence = 0]]

\* Layer::SetShowSurface replaces the SurfaceLayer; without a surface the layer
\* is only removed.
ShowSurface(id) ==
  /\ embedder.alive
  /\ id # NoSurface => manager.surfaces[id].state = "owned"
  /\ id # embedder.shown
  /\ id # NoSurface => embedder.next_sequence <= MaxSequence
  /\ LET s == QueuePromise(manager, embedder)
         next == embedder.next_sequence
     IN IF id = NoSurface
        THEN /\ manager' = s.m
             /\ embedder' = [s.e EXCEPT !.shown = NoSurface]
        ELSE /\ manager' = AddDestructionDependency(s.m, id, next)
             /\ embedder' = [s.e EXCEPT !.shown = id, !.sequence = next, !.next_sequence = next + 1]
  /\ UNCHANGED display

\* DidNotSwap of each promise.
BreakPromises(m, promises) ==
  IF promises = {} THEN m ELSE DidSatisfySequences(m, promises)

\* BeginMainFrame while not visible or without an output surface.
MainFrameAborted ==
  /\ embedder.alive
  /\ manager' = BreakPromises(manager, embedder.promises)
  /\ embedder' = [embedder EXCEPT !.promises = {}, !.broken = @ \/ embedder.promises # {}]
  /\ UNCHANGED display

\* BeginCommit takes the frame of the root surface back; the new tree breaks
\* the promises of a tree that was not drawn.
Commit ==
  /\ embedder.alive
  /\ embedder.output
  /\ LET reclaimed == IF embedder.surface = NoSurface THEN [m |-> manager, d |-> display]
                      ELSE Submit(manager, display, embedder.surface, NoFrame, FALSE, {})
     IN /\ manager' = BreakPromises(reclaimed.m, embedder.tree_promises)
        /\ display' = reclaimed.d
  /\ \E resized \in BOOLEAN :
       \* Roots bounds how often.
       /\ resized => /\ embedder.surface # NoSurface
                     /\ \E id \in Roots : manager.surfaces[id].state = "none"
       /\ embedder' = [embedder EXCEPT
            !.tree = embedder.shown,
            !.tree_promises = embedder.promises,
            !.promises = {},
            !.resized = resized,
            !.committed = TRUE,
            !.broken = FALSE]

\* The frame of the active tree; the quad of the layer may be occluded.
TreeFrames ==
  {[refs |-> refs, resources |-> {}] : refs \in {{}, {embedder.tree} \ {NoSurface}}}

\* Whether SwapBuffers needs a new surface.
NeedsNewSurface ==
  embedder.surface = NoSurface \/ embedder.resized

\* LayerTreeHostImpl::SwapBuffers and SurfaceDisplayOutputSurface::SwapBuffers.
\* A swap that was not answered throttles the next one.
SwapBuffers ==
  /\ embedder.output
  /\ embedder.committed
  /\ embedder.surface # NoSurface => ~manager.surfaces[embedder.surface].callback
  /\ \E id \in Roots, frame \in TreeFrames :
       /\ IF NeedsNewSurface THEN manager.surfaces[id].state = "none" ELSE id = embedder.surface
       /\ LET created == IF ~NeedsNewSurface THEN manager
                         ELSE IF embedder.surface = NoSurface THEN Create(manager, id)
                         ELSE Create(Destroy(manager, embedder.surface), id)
              s == Submit(created, SetSurfaceId(created, display, id), id, frame, TRUE,
                          embedder.tree_promises)
          IN manager' = s.m /\ display' = s.d
       /\ embedder' = [embedder EXCEPT !.surface = id,
                                       !.resized = FALSE,
                                       !.tree_promises = {}]

\* ~SurfaceDisplayOutputSurface and ~Display.
DestroyOutput(m, d) ==
  DestroyDisplay(IF embedder.surface = NoSurface THEN m ELSE Destroy(m, embedder.surface), d)

LoseOutputSurface ==
  /\ embedder.output
  /\ LET s == DestroyOutput(manager, display)
     IN manager' = s.m /\ display' = s.d
  /\ embedder' = [embedder EXCEPT !.output = FALSE, !.committed = FALSE,
                                  !.surface = NoSurface, !.resized = FALSE]

CreateOutputSurface ==
  /\ embedder.alive
  /\ ~embedder.output
  /\ embedder' = [embedder EXCEPT !.output = TRUE]
  /\ UNCHANGED <<manager, display>>

\* The embedder goes away, and its namespace with it.
EmbedderGone ==
  /\ embedder.alive
  /\ LET s == DestroyOutput(manager, display)
         broken == BreakPromises(s.m, embedder.promises \cup embedder.tree_promises)
     IN /\ manager' = InvalidateSurfaceIdNamespace(broken)
        /\ display' = s.d
  /\ embedder' = [Embedder0 EXCEPT !.alive = FALSE, !.output = FALSE,
                                   !.next_sequence = embedder.next_sequence]

-----------------------------------------------------------------------------
Init ==
  /\ manager = Manager0
  /\ display = Display0
  /\ embedder = Embedder0

Next ==
  \/ \E id \in Children : CreateSurface(id) \/ SubmitCompositorFrame(id) \/ DestroySurface(id)
  \/ ChildGone
  \/ \E id \in Children \cup {NoSurface} : ShowSurface(id)
  \/ MainFrameAborted
  \/ Commit
  \/ SwapBuffers
  \/ LoseOutputSurface
  \/ CreateOutputSurface
  \/ EmbedderGone
  \/ DisplayDraws

Spec == Init /\ [][Next]_vars

-----------------------------------------------------------------------------
\* The counts of the resource holder are exact: a resource is held once by every
\* surface whose frame uses it and once for every import of the display, it was
\* received as often as the child has it in flight, and it is back with the
\* child exactly when nothing uses it (SurfaceResourceHolder, Surface and
\* SurfaceAggregator count independently).
ResourcesAccounted ==
  manager.factory => \A r \in Resources :
    /\ manager.alive[r] =
         Cardinality({id \in Children : r \in ResourcesIn(manager.surfaces[id].frame)})
           + Cardinality(Imports(display, Children, r))
    /\ manager.received[r] = manager.in_flight[r]
    /\ manager.alive[r] = 0 <=> manager.in_flight[r] = 0

\* What the embedder's frame shows is still there, although its owner may have
\* destroyed it: the sequence of a SurfaceLayer holds it until the first frame
\* without it.  Only an aborted main frame, which breaks the promises while the
\* active tree stays, can give it up before the next commit.
EmbeddedSurfacesExist ==
  embedder.surface # NoSurface =>
    \A id \in ReferencedSurfaces(manager, embedder.surface) :
      Exists(manager, id) \/ embedder.broken

\* A destroyed surface is kept only while something live shows it or a layer
\* awaits it: whatever the order of frames, sequences and destructions, the
\* last of them collects it (GarbageCollectSurfaces is called by each).
NothingLeaks ==
  \A id \in Ids :
    manager.surfaces[id].state = "destroyed" => id \in LiveSurfaces(manager)

\* A draw callback that was not run belongs to a surface that the next draw of
\* the display meets or drops, so no submitter waits for a frame nobody draws;
\* and the display, unless it is locked, has a root with a frame to draw, which
\* SurfaceAggregator::Aggregate takes for granted.
CallbacksTracked ==
  /\ \A id \in Ids : manager.surfaces[id].callback =>
       Exists(manager, id) /\ id \in display.previous \cup {display.root}
  /\ display.root # NoSurface /\ ~display.locked => HasFrame(manager, display.root)

-----------------------------------------------------------------------------
(* The inductive invariant behind the safety properties, in parts.         *)

\* A surface that is not in the map has nothing left, and a root has neither
\* resources nor sequences that hold it.
Tidy(m) ==
  /\ \A id \in Ids :
       ~Exists(m, id) =>
         /\ m.surfaces[id].frame = NoFrame
         /\ ~m.surfaces[id].callback
         /\ m.surfaces[id].dependencies = {}
  /\ \A id \in Roots :
       /\ ResourcesIn(m.surfaces[id].frame) = {}
       /\ m.surfaces[id].dependencies = {}

\* The embedder owns the one root that its output surface submits to; without
\* the factory no child owns any.
OwnersInOrder(m, e) ==
  /\ \A id \in Roots : m.surfaces[id].state = "owned" <=> id = e.surface
  /\ ~m.factory => \A id \in Children : m.surfaces[id].state # "owned"

\* The display knows the children it has imported resources of.
ImportsKnown(d) ==
  \A id \in Children, r \in Resources :
    /\ d.imported[id][r] <= MaxImports
    /\ d.imported[id][r] > 0 => id \in d.children

\* A sequence is in one place until it is satisfied.
SequencesInOrder(m, e) ==
  /\ e.alive => m.namespace_valid
  /\ ~e.alive => e.shown = NoSurface /\ e.tree = NoSurface
  /\ \A n \in m.satisfied \cup e.promises \cup e.tree_promises :
       n < e.next_sequence /\ n # e.sequence
  /\ e.sequence < e.next_sequence
  /\ e.promises \cap (m.satisfied \cup e.tree_promises) = {}

\* What the layer shows is held by the layer's sequence, and what the active
\* tree shows by that or by a promise that the tree does not carry.
TreeHeld(m, e) ==
  /\ e.shown # NoSurface => e.sequence \in m.surfaces[e.shown].dependencies
  /\ e.tree # NoSurface /\ ~e.broken =>
       \E n \in e.promises \cup {e.sequence} : n \in m.surfaces[e.tree].dependencies

\* Between steps there is no root without an owner, and the display draws the
\* root of the output surface.
AtRest(m, d, e) ==
  /\ \A id \in Roots : m.surfaces[id].state # "destroyed"
  /\ d.root = e.surface
  /\ e.surface # NoSurface => e.output
  /\ ~e.alive => ~e.output

IInv ==
  /\ TypeOK
  /\ Tidy(manager)
  /\ OwnersInOrder(manager, embedder)
  /\ ImportsKnown(display)
  /\ SequencesInOrder(manager, embedder)
  /\ TreeHeld(manager, embedder)
  /\ AtRest(manager, display, embedder)
  /\ ResourcesAccounted
  /\ EmbeddedSurfacesExist
  /\ NothingLeaks
  /\ CallbacksTracked
=============================================================================
