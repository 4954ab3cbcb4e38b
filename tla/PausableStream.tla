--------------------------- MODULE PausableStream ---------------------------
(***************************************************************************)
(* JsonStream::pause and JsonStream::resume over the pipeline of           *)
(* RowPipeline.  The stream keeps its run state twice: in an atomic that   *)
(* every stream has, and behind a mutex that pause() or                    *)
(* set_pause_timeout() allocates.                                          *)
(*                                                                         *)
(* streaming_query clones the mutex for the reader when it creates the     *)
(* stream, before any of those calls can have allocated it, so the         *)
(* reader's copy is None for the life of the stream and its pause branch   *)
(* (conn.rs, lines 819-851) is never entered: the reader of RowPipeline is *)
(* the whole reader.                                                       *)
(*                                                                         *)
(* Both calls are futures with one await, on the mutex, and hold the       *)
(* stream by &mut: until such a future completes or is dropped the         *)
(* consumer can neither poll the stream nor drop it.                       *)
(***************************************************************************)
EXTENDS RowPipeline

VARIABLES
  stateAtomic,  \* state_atomic
  lock,         \* the StreamState behind the mutex, "none" before it exists
  call,         \* the future that is suspended on the mutex
  settled       \* the last pause() or resume() ran to its end

pauseVars == <<stateAtomic, lock, call, settled>>
allVars == <<vars, pauseVars>>

PInit ==
  /\ Init
  /\ stateAtomic = "running" /\ lock = "none"
  /\ call = "none" /\ settled = TRUE

StreamFree == call = "none" /\ handle = "live" /\ ~polling

(* Faulty variant: nothing allocates the mutex.                            *)
AllocatedLater == lock

(* ensure_pause_resume                                                     *)
Allocated == IF lock = "none" THEN "running" ELSE lock

SetPauseTimeout ==
  /\ StreamFree
  /\ lock' = Allocated
  /\ UNCHANGED <<vars, stateAtomic, call, settled>>

(* pause(): the atomic is set before the mutex is asked for.               *)
PauseBegin ==
  /\ StreamFree
  /\ stateAtomic' = "paused"
  /\ lock' = Allocated
  /\ call' = "pause"
  /\ UNCHANGED <<vars, settled>>

PauseLocked ==
  /\ call = "pause"
  /\ lock' = "paused"
  /\ call' = "none" /\ settled' = TRUE
  /\ UNCHANGED <<vars, stateAtomic>>

(* Faulty variant: the atomic is left to the mutex's owner.                *)
ResumeBeginLockOnly ==
  /\ StreamFree
  /\ lock # "none"
  /\ call' = "resume"
  /\ UNCHANGED <<vars, stateAtomic, lock, settled>>

(* resume(): without the mutex it does nothing; otherwise a paused atomic  *)
(* is reset before the mutex is asked for.                                 *)
ResumeBegin ==
  /\ StreamFree
  /\ lock # "none"
  /\ stateAtomic' = "running"
  /\ call' = "resume"
  /\ UNCHANGED <<vars, lock, settled>>

ResumeLocked ==
  /\ call = "resume"
  /\ lock' = "running"
  /\ call' = "none" /\ settled' = TRUE
  /\ UNCHANGED <<vars, stateAtomic>>

(* The future of a pause() or resume() is dropped at its await.            *)
CallDropped ==
  /\ call # "none"
  /\ call' = "none" /\ settled' = FALSE
  /\ UNCHANGED <<vars, stateAtomic, lock>>

PauseResume ==
  \/ SetPauseTimeout \/ PauseBegin \/ PauseLocked
  \/ ResumeBegin \/ ResumeLocked \/ CallDropped

Pipeline ==
  /\ \/ Server \/ ConnectionLost \/ Reader \/ Terminated
     \/ call = "none" /\ Consumer
  /\ UNCHANGED pauseVars

PNext == Pipeline \/ PauseResume

PSpec == PInit /\ [][PNext]_allVars

(* Only the runtime is fair: neither the server nor the application is.    *)
PLiveSpec == PSpec /\ ReaderFairness

-----------------------------------------------------------------------------
PTypeOK ==
  /\ TypeOK
  /\ stateAtomic \in {"running", "paused"}
  /\ lock \in {"none", "running", "paused"}
  /\ call \in {"none", "pause", "resume"}
  /\ call # "none" => lock # "none" /\ handle = "live" /\ ~polling
  /\ settled \in BOOLEAN

(* Whatever calls were interleaved with abandoned ones before, the atomic  *)
(* and the mutex agree again as soon as one pause() or resume() completes. *)
ViewsAgree ==
  call = "none" /\ settled /\ lock # "none" => (stateAtomic = "paused") = (lock = "paused")
=============================================================================
