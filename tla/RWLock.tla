-------------------------------- MODULE RWLock --------------------------------
(***************************************************************************)
(* What a reader/writer lock promises its users: any number of readers or  *)
(* one writer, and a writer that downgrades becomes a reader without       *)
(* letting another writer in between.                                      *)
(***************************************************************************)
CONSTANT Tasks

VARIABLES readers,  \* the tasks that hold the lock for reading
          writers   \* the tasks that hold it for writing

Init == readers = {} /\ writers = {}

AcquireRead(t) ==
  /\ t \notin readers
  /\ writers = {}
  /\ readers' = readers \cup {t}
  /\ UNCHANGED writers

AcquireWrite(t) ==
  /\ readers = {}
  /\ writers = {}
  /\ writers' = {t}
  /\ UNCHANGED readers

ReleaseRead(t) ==
  /\ t \in readers
  /\ readers' = readers \ {t}
  /\ UNCHANGED writers

ReleaseWrite(t) ==
  /\ t \in writers
  /\ writers' = writers \ {t}
  /\ UNCHANGED readers

Downgrade(t) ==
  /\ t \in writers
  /\ writers' = writers \ {t}
  /\ readers' = readers \cup {t}

Next ==
  \E t \in Tasks :
    \/ AcquireRead(t) \/ AcquireWrite(t)
    \/ ReleaseRead(t) \/ ReleaseWrite(t)
    \/ Downgrade(t)

Spec == Init /\ [][Next]_<<readers, writers>>
==============================================================================
