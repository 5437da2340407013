---------------------------- MODULE LiveDocument ------------------------------
(***************************************************************************)
(* The two documents of the application that live in memory and in a file: *)
(* preferences (preferences.rs) and providers (providers.rs).  A change is *)
(* live at once and written on the foreground thread; an exit writes the   *)
(* snapshot it took of the preferences on a thread of its own.  A document *)
(* is a line and the number of its changes: a run that cannot read a file  *)
(* starts a line of its own from the defaults.                             *)
(***************************************************************************)
EXTENDS Integers

CONSTANTS None, MaxChanges, MaxRuns

VARIABLES live,      \* per document, what the handle holds
          disk,      \* per document, what its file holds
          writing,   \* the document the foreground thread is saving
          todo,      \* changes the settings window still makes while it closes
          window,    \* the settings window: closed, open, or with a tint preview
          quit,      \* whether the exit has been asked for
          saver,     \* the exit's snapshot, the preferences live when it was
                     \* asked for, and what its thread did with the snapshot
          running, runs,
          kept       \* per document, the last one known to be on disk: found by the start or saved since

vars == <<live, disk, writing, todo, window, quit, saver, running, runs, kept>>

LiveFiles == {"preferences", "providers"}
Defaults(r) == [line |-> r, n |-> 0]
Changed(doc) == [doc EXCEPT !.n = @ + 1]
NoSaver == [snapshot |-> Defaults(0), asked |-> Defaults(0), state |-> "none"]
Idle == running /\ writing = None /\ todo = 0

Init ==
  /\ live = [d \in LiveFiles |-> Defaults(0)] /\ disk = live /\ kept = live
  /\ writing = None /\ todo = 0 /\ window = "closed"
  /\ quit = FALSE /\ saver = NoSaver /\ running = TRUE /\ runs = 0

-------------------------------------------------------------------------------
(* Changes *)

\* The live value changes first; the save follows on the same thread.
UpdateWith(d) ==
  /\ live[d].n < MaxChanges
  /\ live' = [live EXCEPT ![d] = Changed(@)] /\ writing' = d

Change(d) == Idle /\ UpdateWith(d) /\ UNCHANGED <<disk, todo, window, quit, saver, running, runs, kept>>

\* The temporary file replaces the target whole; before that, an error leaves
\* the target alone, and after it the change is there but not reported.
PersistReportedEarly ==
  /\ writing # None /\ writing' = None
  /\ kept' = IF quit THEN kept ELSE [kept EXCEPT ![writing] = live[writing]]
  /\ disk' \in {disk, [disk EXCEPT ![writing] = live[writing]]}
  /\ UNCHANGED <<live, todo, window, quit, saver, running, runs>>
Persist ==
  /\ writing # None /\ writing' = None
  /\ \/ disk' = [disk EXCEPT ![writing] = live[writing]]
        /\ kept' = IF quit THEN kept ELSE [kept EXCEPT ![writing] = live[writing]]
     \/ disk' \in {disk, [disk EXCEPT ![writing] = live[writing]]} /\ UNCHANGED kept
  /\ UNCHANGED <<live, todo, window, quit, saver, running, runs>>

OpenSettings ==
  /\ Idle /\ window = "closed" /\ window' = "open"
  /\ UNCHANGED <<live, disk, writing, todo, quit, saver, running, runs, kept>>

\* A drag of the tint slider is shown and not stored until it is released.
PreviewTint ==
  /\ Idle /\ window = "open" /\ window' = "previewing"
  /\ UNCHANGED <<live, disk, writing, todo, quit, saver, running, runs, kept>>
PersistTint ==
  /\ Idle /\ window = "previewing" /\ window' = "open" /\ UpdateWith("preferences")
  /\ UNCHANGED <<disk, todo, quit, saver, running, runs, kept>>

\* The window that goes away stores where it was, then a tint still dragged.
ReleaseSettings ==
  /\ Idle /\ window # "closed" /\ window' = "closed"
  /\ todo' = IF window = "previewing" THEN 2 ELSE 1
  /\ UNCHANGED <<live, disk, writing, quit, saver, running, runs, kept>>
StoreReleased ==
  /\ running /\ writing = None /\ todo > 0 /\ todo' = todo - 1
  /\ UpdateWith("preferences")
  /\ UNCHANGED <<disk, window, quit, saver, running, runs, kept>>

-------------------------------------------------------------------------------
(* Exit *)

\* The sidebar and the window geometry are folded into the live preferences.
SnapshotOfFile == disk["preferences"]
SnapshotWith == Changed(live["preferences"])

\* The menu, a close request of the window, or the platform.
PrepareExit ==
  /\ Idle /\ ~quit /\ live["preferences"].n < MaxChanges
  /\ quit' = TRUE
  /\ live' = [live EXCEPT !["preferences"] = Changed(@)]
  /\ saver' = [snapshot |-> SnapshotWith, asked |-> live'["preferences"], state |-> "running"]
  /\ UNCHANGED <<disk, writing, todo, window, running, runs, kept>>

SaverPersists ==
  /\ running /\ saver.state = "running"
  /\ \/ /\ disk' = [disk EXCEPT !["preferences"] = saver.snapshot]
        /\ kept' = [kept EXCEPT !["preferences"] = saver.asked]
        /\ saver' = [saver EXCEPT !.state = "saved"]
     \/ disk' \in {disk, [disk EXCEPT !["preferences"] = saver.snapshot]}
        /\ saver' = [saver EXCEPT !.state = "failed"] /\ UNCHANGED kept
  /\ UNCHANGED <<live, writing, todo, window, quit, running, runs>>

\* The deadline of the exit: its report no longer waits for the thread, which
\* may still write while the process ends.
DeadlinePasses ==
  /\ running /\ saver.state = "running"
  /\ saver' = [saver EXCEPT !.state = "late"]
  /\ UNCHANGED <<live, disk, writing, todo, window, quit, running, runs, kept>>
LateWrite ==
  /\ running /\ saver.state = "late"
  /\ disk' = [disk EXCEPT !["preferences"] = saver.snapshot]
  /\ saver' = [saver EXCEPT !.state = "failed"]
  /\ UNCHANGED <<live, writing, todo, window, quit, running, runs, kept>>

\* The report is there: the application quits.  Its quit hook folds the state of
\* the window in once more and joins the exit that is done, so nothing is saved.
Quit ==
  /\ Idle /\ quit /\ saver.state \in {"saved", "failed", "late"}
  /\ running' = FALSE
  /\ UNCHANGED <<live, disk, writing, todo, window, quit, saver, runs, kept>>

Crash ==
  /\ running /\ running' = FALSE /\ writing' = None /\ todo' = 0
  /\ disk' \in {disk} \cup {[disk EXCEPT ![d] = live[d]] : d \in LiveFiles \cap {writing}}
  /\ UNCHANGED <<live, window, quit, saver, runs, kept>>

\* load: a file that cannot be read, or not be parsed, is left alone, and the
\* program goes on with the defaults.  Whether one can is up to its surroundings.
Loaded(unread, r) == [d \in LiveFiles |-> IF d \in unread THEN Defaults(r) ELSE disk[d]]

\* The next start reads the files.
Start ==
  /\ ~running /\ runs < MaxRuns /\ running' = TRUE /\ runs' = runs + 1
  /\ \E unread \in SUBSET LiveFiles : live' = Loaded(unread, runs + 1)
  /\ kept' = disk
  /\ window' = "closed" /\ quit' = FALSE /\ saver' = NoSaver
  /\ UNCHANGED <<disk, writing, todo>>

Next ==
  \/ \E d \in LiveFiles : Change(d)
  \/ Persist \/ OpenSettings \/ PreviewTint \/ PersistTint \/ ReleaseSettings \/ StoreReleased
  \/ PrepareExit \/ SaverPersists \/ DeadlinePasses \/ LateWrite \/ Quit \/ Crash \/ Start

Spec == Init /\ [][Next]_vars

-------------------------------------------------------------------------------
\* a may stand where b stood: it is b or was made from it, or it goes back to
\* the defaults of run r, which could not read b.
Replaces(a, b, r) ==
  \/ a.line = b.line /\ a.n >= b.n
  \/ a.line = r /\ b.line < r

(* What was saved stays saved: neither a later save, nor the snapshot of    *)
(* the exit, nor a thread that outlived its deadline, nor a crash puts an   *)
(* older document in the file than the start found there, than one whose    *)
(* save succeeded before the exit began, or than what was live when an exit *)
(* that reports a save was asked for.  What changes while the exit runs may *)
(* be lost.  So may all of a document that the start could not read: the    *)
(* file is left as it was found, but the first save of the run replaces it  *)
(* by the defaults and that run's changes, and the next start finds those.  *)
SavedStays ==
  \A d \in LiveFiles : Replaces(disk[d], kept[d], runs) /\ (running => Replaces(live[d], disk[d], runs))
===============================================================================
