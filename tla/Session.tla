------------------------------- MODULE Session -------------------------------
(***************************************************************************)
(* One session, the instances it tracks, and the tasks that call it: a     *)
(* Session (Session.cs) or a MasterSession (MasterSession.cs).             *)
(*                                                                         *)
(* GetByIdAsync and SaveAsync hold _syncLock while they await repository   *)
(* calls; Attach, Detach and DetachAll hold it from their first to their   *)
(* last line without an await, so that each is one action here; Dispose    *)
(* takes no lock.  A semaphore that is disposed of while it is held is     *)
(* never released: those who wait for it wait for ever, those who come     *)
(* later get an exception, and so does the holder when it ends.            *)
(*                                                                         *)
(* The two sessions differ in what an item is found by: a Session has a    *)
(* list and compares the Ids its items have now, a MasterSession has a     *)
(* dictionary for each type, whose keys are the Ids of the time of Attach. *)
(* Types keep their items apart as Ids do and are not distinguished here.  *)
(*                                                                         *)
(* Repository.SaveAsync is one step here, the one in which it stores; what *)
(* happens inside is the subject of Repository.tla.                        *)
(***************************************************************************)
EXTENDS Integers, SequencesExt

CONSTANTS
  Tasks,     \* the tasks that share the session
  MaxObjects,\* bound: as many instances of the aggregate come into being
  Ids,       \* identifiers of aggregates
  MaxVersion,\* bound: an aggregate has at most this many events
  NoId, None

ASSUME SessionAssumption ==
  /\ MaxObjects \in Nat /\ MaxVersion \in Nat
  /\ NoId \notin Ids /\ None \notin Tasks

VARIABLES
  master,       \* the session is a MasterSession
  tracked,      \* _trackedItems or TrackedItems, in the order they are saved
  lock,         \* the task that holds _syncLock, or None
  disposed,     \* Dispose has been called
  alive,        \* the number of instances there are; they are 1 .. alive
  ident,        \* Id of each instance
  made, saved,  \* how many events it has, and how many of them are committed
  stored,       \* how many events the store holds of each aggregate
  pc, arg,      \* where each task is, and with which id or item
  at, goal      \* SaveAsync: the next item, and the events it has to commit

items   == <<alive, ident, made, saved>>
session == <<tracked, lock, disposed, master>>
tasks   == <<pc, arg, at, goal>>
vars    == <<items, session, stored, tasks>>

Objects  == 1 .. MaxObjects
Entry    == [item : Objects, key : Ids \cup {NoId}]
Outcomes == {"ok", "threw", "disposed"}

Nothing == [o \in Objects |-> 0]

Init ==
  /\ tracked = <<>> /\ lock = None /\ disposed = FALSE /\ master \in BOOLEAN
  /\ alive = 0 /\ ident = [o \in Objects |-> NoId]
  /\ made = Nothing /\ saved = Nothing
  /\ stored \in [Ids -> 0 .. MaxVersion]
  /\ pc = [t \in Tasks |-> "idle"]
  /\ arg = [t \in Tasks |-> None]
  /\ at = [t \in Tasks |-> 1]
  /\ goal = [t \in Tasks |-> Nothing]

-----------------------------------------------------------------------------
(* The application and the rest of the world *)

(* An instance is made; its first event gives it its Id. *)
New ==
  /\ alive < MaxObjects
  /\ alive' = alive + 1
  /\ UNCHANGED <<ident, made, saved, session, stored, tasks>>

ApplyEvent(o) ==
  /\ o <= alive /\ made[o] < MaxVersion
  /\ made' = [made EXCEPT ![o] = @ + 1]
  /\ \E id \in Ids :
       /\ ident[o] \in {NoId, id}
       /\ ident' = [ident EXCEPT ![o] = id]
  /\ UNCHANGED <<alive, saved, session, stored, tasks>>

(* Another session stores an event. *)
ForeignWrite(id) ==
  /\ stored[id] < MaxVersion
  /\ stored' = [stored EXCEPT ![id] = @ + 1]
  /\ UNCHANGED <<items, session, tasks>>

-----------------------------------------------------------------------------
(* Calls of the session *)

(* A task calls the session and reaches WaitAsync or Wait.  Which call it  *)
(* is makes no difference before it has the lock, and is chosen then.      *)
Begin(t) ==
  /\ pc[t] = "idle"
  /\ pc' = [pc EXCEPT ![t] = IF disposed THEN "disposed" ELSE "waiting"]
  /\ UNCHANGED <<items, session, stored, arg, at, goal>>

(* The caller has the result or the exception. *)
Resume(t) ==
  /\ pc[t] \in Outcomes
  /\ pc' = [pc EXCEPT ![t] = "idle"]
  /\ goal' = [goal EXCEPT ![t] = Nothing]
  /\ UNCHANGED <<items, session, stored, arg, at>>

(* It gets the lock; a lock that is disposed of while free is refused.     *)
Enters(t) == pc[t] = "waiting" /\ lock = None /\ ~ disposed

Refused(t) ==
  /\ pc[t] = "waiting" /\ lock = None /\ disposed
  /\ pc' = [pc EXCEPT ![t] = "disposed"]
  /\ UNCHANGED <<items, session, stored, arg, at, goal>>

(* Mutant: the lock is released in the try block. *)
ReturnWithoutFinally(t, how) ==
  /\ pc' = [pc EXCEPT ![t] = IF disposed THEN "disposed" ELSE how]
  /\ lock' = IF disposed \/ how = "threw" THEN lock ELSE None
  /\ arg' = [arg EXCEPT ![t] = None]
  /\ at' = [at EXCEPT ![t] = 1]
  /\ UNCHANGED <<disposed, master, goal>>

(* The call ends.  finally releases the lock, which throws once it is      *)
(* disposed of.                                                            *)
Return(t, how) ==
  /\ pc' = [pc EXCEPT ![t] = IF disposed THEN "disposed" ELSE how]
  /\ lock' = IF disposed THEN lock ELSE None
  /\ arg' = [arg EXCEPT ![t] = None]
  /\ at' = [at EXCEPT ![t] = 1]
  /\ UNCHANGED <<disposed, master, goal>>

(* What a session finds an entry by, and where it puts a new one: a        *)
(* dictionary reuses the places of removed items.                          *)
Name(e) == IF master THEN e.key ELSE ident[e.item]
Tracks(id) == \E e \in ToSet(tracked) : Name(e) = id
Track(o, id) ==
  LET e == [item |-> o, key |-> id]
  IN \E i \in 1 .. Len(tracked) + 1 :
       /\ ~ master => i = Len(tracked) + 1
       /\ tracked' = InsertAt(tracked, i, e)

(* Mutant: the list is searched before the lock is taken. *)
GetWithoutLock(t, id) ==
  /\ Enters(t) /\ ~ Tracks(id)
  /\ arg' = [arg EXCEPT ![t] = id]
  /\ pc' = [pc EXCEPT ![t] = "loading"]
  /\ UNCHANGED <<items, session, stored, at, goal>>

(* GetByIdAsync of an id that is not tracked asks the repository for it.   *)
GetUntracked(t, id) ==
  /\ Enters(t) /\ ~ Tracks(id)
  /\ arg' = [arg EXCEPT ![t] = id]
  /\ lock' = t
  /\ pc' = [pc EXCEPT ![t] = "loading"]
  /\ UNCHANGED <<items, tracked, disposed, master, stored, at, goal>>

GetTracked(t, id) ==
  /\ Enters(t) /\ Tracks(id)
  /\ Return(t, "ok")
  /\ UNCHANGED <<items, tracked, stored>>

Loaded(t) ==
  LET id == arg[t]
  IN /\ pc[t] = "loading" /\ stored[id] > 0
     /\ alive < MaxObjects /\ alive' = alive + 1
     /\ ident' = [ident EXCEPT ![alive'] = id]
     /\ made' = [made EXCEPT ![alive'] = stored[id]]
     /\ saved' = [saved EXCEPT ![alive'] = stored[id]]
     /\ Track(alive', id)
     /\ Return(t, "ok")
     /\ UNCHANGED stored

(* Mutant: the repository returns null and the session tracks it. *)
LoadsNothing(t) ==
  /\ pc[t] = "loading"
  /\ Track(alive + 1, arg[t])
  /\ Return(t, "threw")
  /\ UNCHANGED <<items, stored>>

(* There is no such aggregate, or the repository cannot tell. *)
LoadFails(t) ==
  /\ pc[t] = "loading"
  /\ Return(t, "threw")
  /\ UNCHANGED <<items, tracked, stored>>

Attach(t, o) ==
  /\ Enters(t)
  /\ IF Tracks(ident[o])
       THEN Return(t, "threw") /\ UNCHANGED tracked
       ELSE Return(t, "ok") /\ Track(o, ident[o])
  /\ UNCHANGED <<items, stored>>

(* A Session decides by the Id whether the item is tracked and removes it  *)
(* by reference, the first time it is in the list, which removes nothing   *)
(* when another instance has that Id.                                      *)
Removes(e, o) == IF master THEN e.key = ident[o] ELSE e.item = o
Detach(t, o) ==
  LET places == {i \in DOMAIN tracked : Removes(tracked[i], o)}
  IN /\ Enters(t)
     /\ IF Tracks(ident[o])
          THEN /\ Return(t, "ok")
               /\ \/ places = {} /\ UNCHANGED tracked
                  \/ \E i \in places :
                       /\ \A j \in places : i <= j
                       /\ tracked' = RemoveAt(tracked, i)
          ELSE Return(t, "threw") /\ UNCHANGED tracked
     /\ UNCHANGED <<items, stored>>

DetachAll(t) ==
  /\ Enters(t)
  /\ tracked' = <<>>
  /\ Return(t, "ok")
  /\ UNCHANGED <<items, stored>>

(* Dispose clears the list under the eyes of whoever enumerates it.  A     *)
(* MasterSession forgets its dictionaries, but does not clear them.        *)
Dispose ==
  /\ ~ disposed
  /\ disposed' = TRUE
  /\ tracked' = IF master THEN tracked ELSE <<>>
  /\ UNCHANGED <<items, lock, master, stored, tasks>>

-----------------------------------------------------------------------------
(* SaveAsync *)

BeginSave(t) ==
  /\ Enters(t)
  /\ lock' = t
  /\ pc' = [pc EXCEPT ![t] = "enumerating"]
  /\ goal' = [goal EXCEPT ![t] = [o \in Objects |->
                IF \E e \in ToSet(tracked) : e.item = o THEN made[o] ELSE 0]]
  /\ UNCHANGED <<items, tracked, disposed, master, stored, arg, at>>

(* MoveNext finds an item, finds none, or finds that the session has been  *)
(* disposed of; a MasterSession may get to the end of a dictionary first.  *)
NextItem(t) ==
  /\ pc[t] = "enumerating" /\ at[t] <= Len(tracked)
  /\ pc' = [pc EXCEPT ![t] = "saving"]
  /\ arg' = [arg EXCEPT ![t] = tracked[at[t]].item]
  /\ UNCHANGED <<items, session, stored, at, goal>>

(* Mutant: the last item is left out. *)
SaveEndsEarly(t) ==
  /\ pc[t] = "enumerating" /\ at[t] >= Len(tracked)
  /\ disposed => master
  /\ Return(t, "ok")
  /\ UNCHANGED <<items, tracked, stored>>

SaveEnds(t) ==
  /\ pc[t] = "enumerating" /\ at[t] > Len(tracked)
  /\ disposed => master
  /\ Return(t, "ok")
  /\ UNCHANGED <<items, tracked, stored>>

SaveInterrupted(t) ==
  /\ pc[t] = "enumerating" /\ disposed
  /\ Return(t, "threw")
  /\ UNCHANGED <<items, tracked, stored>>

HasUncommittedChanges(o) == saved[o] < made[o]
UpToDate(o) == stored[ident[o]] = saved[o]

(* Repository.SaveAsync: nothing to do, or the changes are stored. *)
SaveItem(t) ==
  LET o == arg[t]
  IN /\ pc[t] = "saving"
     /\ HasUncommittedChanges(o) => UpToDate(o)
     /\ IF HasUncommittedChanges(o)
          THEN stored' = [stored EXCEPT ![ident[o]] = made[o]]
          ELSE UNCHANGED stored
     /\ saved' = [saved EXCEPT ![o] = made[o]]
     /\ at' = [at EXCEPT ![t] = @ + 1]
     /\ pc' = [pc EXCEPT ![t] = "enumerating"]
     /\ UNCHANGED <<alive, ident, made, session, arg, goal>>

(* Mutant: the exception is put aside and the enumeration goes on. *)
SaveItemFailsQuietly(t) ==
  /\ pc[t] = "saving" /\ HasUncommittedChanges(arg[t])
  /\ at' = [at EXCEPT ![t] = @ + 1]
  /\ pc' = [pc EXCEPT ![t] = "enumerating"]
  /\ UNCHANGED <<items, session, stored, arg, goal>>

(* Repository.SaveAsync throws: a conflict, or a provider that fails before *)
(* or after the events are stored.                                         *)
SaveItemFails(t) ==
  LET o == arg[t]
  IN /\ pc[t] = "saving" /\ HasUncommittedChanges(o)
     /\ \/ UNCHANGED stored
        \/ UpToDate(o) /\ stored' = [stored EXCEPT ![ident[o]] = made[o]]
     /\ Return(t, "threw")
     /\ UNCHANGED <<items, tracked>>

-----------------------------------------------------------------------------

Enter(t) ==
  \/ \E id \in Ids : GetUntracked(t, id) \/ GetTracked(t, id)
  \/ \E o \in 1 .. alive : Attach(t, o) \/ Detach(t, o)
  \/ DetachAll(t) \/ BeginSave(t)
Inside(t) ==
  \/ Loaded(t) \/ LoadFails(t)
  \/ NextItem(t) \/ SaveEnds(t) \/ SaveInterrupted(t)
  \/ SaveItem(t) \/ SaveItemFails(t)

Next ==
  \/ Dispose
  \/ New \/ \E o \in Objects : ApplyEvent(o)
  \/ \E id \in Ids : ForeignWrite(id)
  \/ \E t \in Tasks : 
       Begin(t) \/ Refused(t) \/ Enter(t) \/ Inside(t) \/ Resume(t)

Spec == Init /\ [][Next]_vars

(* Repository calls end, and SemaphoreSlim serves its queue in order. *)
FairSpec ==
  Spec /\ \A t \in Tasks : WF_vars(Inside(t)) /\ SF_vars(Refused(t) \/ Enter(t))

-----------------------------------------------------------------------------
(* Properties *)

(* The shape of the state of a Session, its items and its callers.         *)
TypeOK ==
  /\ alive \in 0 .. MaxObjects
  /\ tracked \in Seq(Entry) /\ \A e \in ToSet(tracked) : e.item <= alive
  /\ lock \in Tasks \cup {None} /\ disposed \in BOOLEAN /\ master \in BOOLEAN
  /\ ident \in [Objects -> Ids \cup {NoId}]
  /\ made \in [Objects -> 0 .. MaxVersion] /\ saved \in [Objects -> 0 .. MaxVersion]
  /\ stored \in [Ids -> 0 .. MaxVersion]
  /\ pc \in [Tasks -> {"idle", "waiting", "loading", "enumerating", "saving"}
                        \cup Outcomes]
  /\ arg \in [Tasks -> Ids \cup Objects \cup {None}]
  /\ at \in [Tasks -> Nat] /\ goal \in [Tasks -> [Objects -> 0 .. MaxVersion]]

(* A session tracks one instance of an aggregate, however calls overlap,   *)
(* so that its own items never conflict with each other; only an item that *)
(* was attached before it had an Id may turn out to be another instance of *)
(* a tracked aggregate, or to be tracked twice (GetByIdAsync, Attach).     *)
OneInstancePerId ==
  \A i, j \in DOMAIN tracked :
    i # j /\ ident[tracked[i].item] = ident[tracked[j].item] =>
      /\ ident[tracked[i].item] # NoId
      /\ NoId \in {tracked[i].key, tracked[j].key}

(* A SaveAsync that returns has committed all that its items held when it  *)
(* got the lock, whoever applies events, writes or disposes of the session *)
(* meanwhile.                                                              *)
SaveIsComplete ==
  \A t \in Tasks :
    pc[t] = "ok" =>
      \A o \in Objects : saved[o] >= goal[t][o]

(* When SaveAsync is refused an item it stores none of those behind it:    *)
(* the items it has stored are the first of the list.                      *)
SavesInOrder ==
  [][ \A t \in Tasks, j \in DOMAIN tracked :
        LET committed(e) == saved[e.item] >= goal[t][e.item]
        IN lock = t /\ saved'[tracked[j].item] # saved[tracked[j].item] =>
             \E k \in 1 .. j : /\ tracked[k].item = tracked[j].item
                               /\ \A i \in 1 .. k - 1 : committed(tracked[i])
    ]_vars

(* A call ends whatever the others do, unless the session is disposed of   *)
(* while one of them holds its lock (SemaphoreSlim.Dispose).               *)
CallsEnd ==
  \A t \in Tasks :
    pc[t] = "waiting" ~> pc[t] \in Outcomes \/ (disposed /\ lock # None)
=============================================================================
