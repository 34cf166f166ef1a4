------------------------------- MODULE Batch --------------------------------
(***************************************************************************)
(* process_directory (src/main.py): one invocation lists the captures      *)
(* below the input directory and rewrites them one after the other, each   *)
(* to a file of its own below the output directory, which may lie below    *)
(* the input directory.  Invocations follow one another and may be killed. *)
(*                                                                         *)
(* A path is a directory (a sequence of names below the input directory),  *)
(* a stem and a suffix.  A stem is a sequence: the one of an output is the *)
(* stem of its input and the time.  What the passes do with a file, and    *)
(* the statistics, are left out: a file succeeds, or an exception is       *)
(* raised.                                                                 *)
(***************************************************************************)
EXTENDS Integers, SequencesExt

CONSTANTS
  Inputs,          \* the captures that are there before the first invocation
  OutputDirs,      \* what may be given as output directory
  MaxInvocations,  \* bounds the number of invocations
  MaxTime          \* bounds the clock, which counts seconds

Path(dir, stem, suffix) == [dir |-> dir, stem |-> stem, suffix |-> suffix]
CaptureSuffixes == {"pcap", "pcapng"}

\* A function with one more argument, or another value there
With(f, x, value) == [y \in DOMAIN f \cup {x} |-> IF y = x THEN value ELSE f[y]]

ASSUME InputsAssumption ==
  /\ IsFiniteSet(Inputs)
  /\ Inputs \subseteq [dir : Seq(STRING), stem : Seq(STRING), suffix : CaptureSuffixes]
  /\ \A p \in Inputs : Len(p.stem) = 1
ASSUME OutputDirsAssumption == OutputDirs \subseteq Seq(STRING)
ASSUME BoundsAssumption == MaxInvocations \in Nat /\ MaxTime \in Nat

VARIABLES
  content,      \* path of a file -> what it was made from, and whether it is complete
  now,          \* int(time.time())
  running,      \* whether an invocation is active
  killed,       \* whether the last one was killed
  args,         \* its output directory, and fail_fast
  files,        \* the captures that are still to be processed, or are being processed
  output,       \* output_file of the first of them, NoFile before it has one
  opened,       \* whether the writer is open
  last,         \* history: capture -> its output when it was processed last
  abandoned,    \* history: the outputs a failure or a kill left behind
  invocations   \* how many there were

batchVars == <<content, now, running, killed, args, files, output, opened, last, abandoned,
               invocations>>

NoFile == Path(<< >>, << >>, "none")

BatchInit ==
  /\ content = [p \in Inputs |-> [from |-> NoFile, whole |-> TRUE]]
  /\ now = 0
  /\ running = FALSE /\ killed = FALSE
  /\ args \in [dir : OutputDirs, fail_fast : BOOLEAN]
  /\ files = << >> /\ output = NoFile /\ opened = FALSE
  /\ last = << >> /\ abandoned = {}
  /\ invocations = 0

-----------------------------------------------------------------------------
\* iter_pcap_files leaves out what lies below the output directory.
AllFiles(dir) == {p \in DOMAIN content : p.suffix \in CaptureSuffixes}
Files(dir) == {p \in DOMAIN content : p.suffix \in CaptureSuffixes /\ ~IsPrefix(dir, p.dir)}

\* output_path_for
OutputWithoutParent(p) == Path(args.dir, Append(p.stem, now), "pcap")
OutputPath(p) == Path(args.dir \o p.dir, Append(p.stem, now), "pcap")

\* The list is complete before the first of its files is written.
Invoke ==
  /\ ~running /\ invocations < MaxInvocations
  /\ \E dir \in OutputDirs, fail_fast \in BOOLEAN :
       /\ args' = [dir |-> dir, fail_fast |-> fail_fast]
       /\ files' = SetToSeq(Files(dir))
  /\ running' = TRUE /\ killed' = FALSE
  /\ output' = NoFile /\ opened' = FALSE
  /\ invocations' = invocations + 1
  /\ UNCHANGED <<content, now, last, abandoned>>

StartFile ==
  /\ running /\ files # << >> /\ output = NoFile
  /\ output' = OutputPath(Head(files))
  /\ UNCHANGED <<content, now, running, killed, args, files, opened, last, abandoned,
                 invocations>>

\* The passes have succeeded, and the writer makes an empty file, or empties one.
OpenOutput ==
  /\ running /\ output # NoFile /\ ~opened
  /\ opened' = TRUE
  /\ content' = With(content, output, [from |-> Head(files), whole |-> FALSE])
  /\ UNCHANGED <<now, running, killed, args, files, output, last, abandoned, invocations>>

\* The writer is closed in any case.
NextFile == files' = Tail(files) /\ output' = NoFile /\ opened' = FALSE

EndFile ==
  /\ running /\ opened
  /\ content' = [content EXCEPT ![output].whole = TRUE]
  /\ last' = With(last, Head(files), output)
  /\ NextFile
  /\ UNCHANGED <<now, running, killed, args, abandoned, invocations>>

\* An exception while a file is read, rewritten or written: it is raised again, or not.
NeverGoesOn == FALSE
GoesOn == ~args.fail_fast

FailFile ==
  /\ running /\ output # NoFile
  /\ abandoned' = IF opened THEN abandoned \cup {output} ELSE abandoned
  /\ running' = GoesOn
  /\ NextFile
  /\ UNCHANGED <<content, now, killed, args, last, invocations>>

EndBatch ==
  /\ running /\ files = << >>
  /\ running' = FALSE
  /\ UNCHANGED <<content, now, killed, args, files, output, opened, last, abandoned,
                 invocations>>

-----------------------------------------------------------------------------
(***************************************************************************)
(* The world around the program.                                           *)
(***************************************************************************)
Kill ==
  /\ running
  /\ running' = FALSE /\ killed' = TRUE
  /\ abandoned' = IF opened THEN abandoned \cup {output} ELSE abandoned
  /\ UNCHANGED <<content, now, args, files, output, opened, last, invocations>>

Tick ==
  /\ now < MaxTime
  /\ now' = now + 1
  /\ UNCHANGED <<content, running, killed, args, files, output, opened, last, abandoned,
                 invocations>>

Step == StartFile \/ OpenOutput \/ EndFile \/ FailFile \/ EndBatch
BatchNext == Invoke \/ Step \/ Kill \/ Tick

\* The program is one thread that goes on until it is killed; nobody has to start it again.
BatchSpec == BatchInit /\ [][BatchNext]_batchVars /\ WF_batchVars(Step)

-----------------------------------------------------------------------------
\* Only files that exist are listed, open or remembered.
BatchTypeOK ==
  /\ \A p \in DOMAIN content : content[p].from \in DOMAIN content \cup {NoFile}
  /\ now \in 0 .. MaxTime /\ invocations \in 0 .. MaxInvocations
  /\ running \in BOOLEAN /\ killed \in BOOLEAN /\ opened \in BOOLEAN
  /\ args \in [dir : OutputDirs, fail_fast : BOOLEAN]
  /\ Range(files) \subseteq DOMAIN content
  /\ opened => output \in DOMAIN content /\ files # << >>
  /\ DOMAIN last \subseteq DOMAIN content /\ abandoned \subseteq DOMAIN content

(***************************************************************************)
(* No output is ever taken for a capture, neither by the invocation that   *)
(* wrote it nor by a later one, as long as all of them have the same       *)
(* output directory: what is written was made from what was captured.      *)
(***************************************************************************)
OutputsAreMadeFromCaptures == \A p \in DOMAIN content : content[p].from \in Inputs \cup {NoFile}

(***************************************************************************)
(* The name of an output has the directory and the stem of its capture,    *)
(* and the second.  So the output of a capture that was processed is only  *)
(* lost to a twin: the same capture, or one of the same directory and stem *)
(* with the other suffix, begun in the same second.  And it is complete    *)
(* unless the twin is being written or was abandoned.                      *)
(***************************************************************************)
AreTwins(p, q) == p.dir = q.dir /\ p.stem = q.stem

OutputsAreOnlyLostToTwins ==
  \A p \in DOMAIN last :
    /\ AreTwins(content[last[p]].from, p)
    /\ ~content[last[p]].whole => last[p] \in abandoned \cup {output}

(***************************************************************************)
(* Without fail_fast a file that fails stops no batch: every capture that  *)
(* an invocation has listed has its turn, unless the program is killed.    *)
(***************************************************************************)
FailuresStopNoBatch ==
  \A p \in Inputs :
    (running /\ ~args.fail_fast /\ p \in Range(files)) ~> (p \notin Range(files) \/ killed)

(***************************************************************************)
(* In every state only files that exist are referred to, and none of them  *)
(* was made from an output.                                                *)
(***************************************************************************)
BatchInv == BatchTypeOK /\ OutputsAreMadeFromCaptures
=============================================================================
