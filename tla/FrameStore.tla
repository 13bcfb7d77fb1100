------------------------------ MODULE FrameStore -------------------------------
(***************************************************************************)
(* The latest frame of one camera: camera_service.receive_frame and the     *)
(* page that shows it.  The image and its metadata are two files, each      *)
(* replaced in one step; a lock file (flock) orders the writers of the      *)
(* adapter and of HTTP, and readers take no lock.  The kernel gives the     *)
(* lock back when its holder dies.                                          *)
(***************************************************************************)
EXTENDS Integers

CONSTANTS
  FrameSenders, \* requests that may carry a frame of this camera
  Frames,       \* records of id, image and at (captured_at)
  NoFrame,
  NoSender,
  FrameClock    \* the present, in the unit of "at"; five minutes are one unit

ASSUME NoFrameAssumption == NoFrame \notin Frames /\ NoSender \notin FrameSenders
ASSUME FrameTimeAssumption == FrameClock \in Int /\ \A f \in Frames : f.at \in Int

VARIABLES
  image,    \* <camera>.frame, as the frame it was written from
  metadata, \* <camera>.json, likewise
  lock,     \* who holds <camera>.lock
  frameAt,  \* where each sender's request is
  frameIn,  \* its frame
  shownMeta, \* the metadata the page has read and not yet used
  (* History, read only by the properties. *)
  torn,     \* has a request ended between the two files?
  shown     \* the pairs of metadata and image the page has sent

frameVars == <<image, metadata, lock, frameAt, frameIn, shownMeta, torn, shown>>
frameFiles == <<image, metadata>>

FrameTypeOK ==
  /\ {image, metadata, shownMeta} \subseteq Frames \cup {NoFrame}
  /\ lock \in FrameSenders \cup {NoSender}
  /\ frameAt \in [FrameSenders -> {"idle", "lock", "image", "metadata"}]
  /\ frameIn \in [FrameSenders -> Frames \cup {NoFrame}]
  /\ torn \in BOOLEAN
  /\ shown \subseteq Frames \X Frames

FrameInit ==
  /\ image = NoFrame /\ metadata = NoFrame /\ shownMeta = NoFrame
  /\ lock = NoSender
  /\ frameAt = [s \in FrameSenders |-> "idle"]
  /\ frameIn = [s \in FrameSenders |-> NoFrame]
  /\ torn = FALSE
  /\ shown = {}

--------------------------------------------------------------------------------
(* validate_frame *)
ValidFrame(f) == f.at <= FrameClock + 1

ReceiveFrame(s, f) ==
  /\ frameAt[s] = "idle"
  /\ ValidFrame(f)
  /\ frameAt' = [frameAt EXCEPT ![s] = "lock"]
  /\ frameIn' = [frameIn EXCEPT ![s] = f]
  /\ UNCHANGED <<frameFiles, lock, shownMeta, torn, shown>>

(* The request ends and lets go of the lock if it has it. *)
EndFrame(s) ==
  /\ frameAt' = [frameAt EXCEPT ![s] = "idle"]
  /\ frameIn' = [frameIn EXCEPT ![s] = NoFrame]
  /\ lock' = IF lock = s THEN NoSender ELSE lock

(* Mutant: the metadata is read before the lock is asked for. *)
LockAfterLook(s) ==
  /\ frameAt[s] = "lock"
  /\ IF metadata = NoFrame \/ frameIn[s].at > metadata.at
       THEN frameAt' = [frameAt EXCEPT ![s] = "image"] /\ UNCHANGED <<frameIn, lock>>
       ELSE EndFrame(s)
  /\ UNCHANGED <<frameFiles, shownMeta, torn, shown>>

NewerFrame(f) ==
  metadata # NoFrame => f.id # metadata.id /\ f.at > metadata.at

(* The lock is taken and the metadata read: a frame that is there already,  *)
(* one whose id is there with another image, and one that is not newer go   *)
(* no further.                                                              *)
LockAndLook(s) ==
  /\ frameAt[s] = "lock"
  /\ lock = NoSender
  /\ IF NewerFrame(frameIn[s])
       THEN /\ lock' = s
            /\ frameAt' = [frameAt EXCEPT ![s] = "image"]
            /\ UNCHANGED frameIn
       ELSE EndFrame(s)
  /\ UNCHANGED <<frameFiles, shownMeta, torn, shown>>

(* The write fails: an error leaves receive_frame. *)
FrameWriteFails(s) ==
  /\ EndFrame(s)
  /\ torn' = (torn \/ frameAt[s] = "metadata")
  /\ UNCHANGED <<frameFiles, shownMeta, shown>>

ReplaceImage(s) ==
  /\ frameAt[s] = "image"
  /\ \/ /\ image' = frameIn[s]
        /\ frameAt' = [frameAt EXCEPT ![s] = "metadata"]
        /\ UNCHANGED <<metadata, lock, frameIn, shownMeta, torn, shown>>
     \/ FrameWriteFails(s)

ReplaceMetadata(s) ==
  /\ frameAt[s] = "metadata"
  /\ \/ /\ metadata' = frameIn[s]
        /\ EndFrame(s)
        /\ torn' = FALSE
        /\ UNCHANGED <<image, shownMeta, shown>>
     \/ FrameWriteFails(s)

FrameSenderDies(s) ==
  /\ frameAt[s] # "idle"
  /\ FrameWriteFails(s)

(* The page: frame_metadata, then the file is sent as it is by then. *)
ReadFrameMetadata ==
  /\ shownMeta = NoFrame
  /\ metadata # NoFrame /\ image # NoFrame
  /\ shownMeta' = metadata
  /\ UNCHANGED <<frameFiles, lock, frameAt, frameIn, torn, shown>>

SendFrame ==
  /\ shownMeta # NoFrame
  /\ shown' = shown \cup {<<shownMeta, image>>}
  /\ shownMeta' = NoFrame
  /\ UNCHANGED <<frameFiles, lock, frameAt, frameIn, torn>>

FrameNext ==
  \/ \E s \in FrameSenders :
       \/ \E f \in Frames : ReceiveFrame(s, f)
       \/ LockAndLook(s)
       \/ ReplaceImage(s)
       \/ ReplaceMetadata(s)
       \/ FrameSenderDies(s)
  \/ ReadFrameMetadata
  \/ SendFrame

FrameSpec == FrameInit /\ [][FrameNext]_frameVars

--------------------------------------------------------------------------------
(***************************************************************************)
(* Properties.                                                              *)
(***************************************************************************)

(* The two files are of one frame whenever no one holds the lock, unless a  *)
(* request ended between them and none has finished since; and what the     *)
(* page sends is never older than the metadata it read, whatever failed and *)
(* whoever wrote between its two reads.                                     *)
FrameFitsMetadata ==
  /\ lock = NoSender /\ ~torn => image = metadata
  /\ \A p \in shown : p[2].at >= p[1].at
================================================================================
