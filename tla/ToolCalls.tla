------------------------------- MODULE ToolCalls -------------------------------
(***************************************************************************)
(* The file and process tools (tool/edit, write, read, bash, grep and      *)
(* toolkit), called concurrently: several agents of a process share one    *)
(* file, and each process tool talks to a child process through two pipes. *)
(*                                                                         *)
(* A file's content is abstracted to who wrote it and how often each edit's *)
(* old_string occurs in it; the output of a process to the units it writes *)
(* to each pipe, a pipe holding PipeCap of them.                           *)
(***************************************************************************)
EXTENDS Integers, Sequences, FiniteSets, Functions

CONSTANTS
    Call,         \* the tool calls
    ToolChoices,  \* which tool each is for: the assignments considered
    PipeCap,      \* what the operating system buffers of a pipe
    MaxOutput,    \* maxOutputBytes
    Outputs       \* what a process may write: sequences of "out" and "err"

FileTools == {"edit", "write", "read"}
ProcessTools == {"bash", "grep"}

\* No call.
Nobody == "nobody"

ASSUME ToolsAssumption ==
    /\ IsFiniteSet(Call) /\ Nobody \notin Call
    /\ ToolChoices \subseteq [Call -> FileTools \cup ProcessTools]
    /\ PipeCap \in Nat \ {0} /\ MaxOutput \in Nat \ {0}
    /\ Outputs \subseteq Seq({"out", "err"})

\* The file before any call: every old_string occurs once or twice in it.
Contents == [by : Call \cup {Nobody}, count : [Call -> 0..2]]
Missing == [by |-> "missing", count |-> [c \in Call |-> 0]]

\* What write puts there: each old_string once.
Written(c) == [by |-> c, count |-> [e \in Call |-> 1]]

VARIABLES
    tool,       \* which tool each call is for
    flag,       \* replace_all of an edit, create_only of a write
    at,         \* where the call is
    result,     \* what it returned: "none", "ok", "truncated", "error", "timeout", "cancelled"
    file,       \* the file's content, or Missing
    locked,     \* the call that holds LockPath's mutex of the path, or Nobody
    seen,       \* the content an edit has read
    temp,       \* temporary files: per call "none", "partial" or "whole"
    torn,       \* a half-written content has been under the file's name
    process,    \* the child process: "none", "running", "ended", "orphan", "killed"
    plan,       \* the units it has still to write
    pipe,       \* units in its two pipes
    copied,     \* units the tool has read from stdout (bash: from both)
    shut,       \* the process has closed its stdout
    drainer,    \* RunCommand's reader of stderr: "none", "reading", "ended"
    ctxDone     \* the child context timed out, or the caller cancelled

fileVars == <<file, locked, temp, torn>>
processVars == <<process, plan, pipe, copied, shut, drainer>>
vars == <<tool, flag, at, result, seen, fileVars, processVars, ctxDone>>

At == {"start", "read", "create", "fill", "rename", "copy", "wait", "done"}
Results == {"none", "ok", "truncated", "error", "timeout", "cancelled"}

ToolsTypeOK ==
    /\ tool \in ToolChoices /\ flag \in [Call -> BOOLEAN]
    /\ at \in [Call -> At] /\ result \in [Call -> Results]
    /\ file \in Contents \cup {Missing}
    /\ locked \in Call \cup {Nobody}
    /\ seen \in [Call -> Contents \cup {Missing}]
    /\ temp \in [Call -> {"none", "partial", "whole"}] /\ torn \in BOOLEAN
    /\ process \in [Call -> {"none", "running", "ended", "orphan", "killed"}]
    /\ plan \in [Call -> Seq({"out", "err"})]
    /\ pipe \in [Call -> [{"out", "err"} -> 0..PipeCap]]
    /\ copied \in [Call -> 0..(MaxOutput + 1)]
    /\ shut \in [Call -> BOOLEAN]
    /\ drainer \in [Call -> {"none", "reading", "ended"}]
    /\ ctxDone \in [Call -> {"no", "timeout", "cancelled"}]

Init ==
    /\ tool \in ToolChoices
    /\ flag \in [Call -> BOOLEAN]
    /\ \A c \in Call : tool[c] \notin {"edit", "write"} => flag[c] = FALSE
    /\ at = [c \in Call |-> "start"]
    /\ result = [c \in Call |-> "none"]
    /\ file \in {Missing} \cup
           {[by |-> Nobody, count |-> [e \in Call |-> k]] : k \in 1..2}
    /\ locked = Nobody
    /\ seen = [c \in Call |-> Missing]
    /\ temp = [c \in Call |-> "none"] /\ torn = FALSE
    /\ process = [c \in Call |-> "none"]
    /\ plan \in [Call -> Outputs]
    /\ \A c \in Call : tool[c] \in FileTools => plan[c] = <<>>
    /\ pipe = [c \in Call |-> [k \in {"out", "err"} |-> 0]]
    /\ copied = [c \in Call |-> 0]
    /\ shut = [c \in Call |-> FALSE]
    /\ drainer = [c \in Call |-> "none"]
    /\ ctxDone = [c \in Call |-> "no"]

Goto(c, where) == at' = [at EXCEPT ![c] = where]

Finish(c, how) ==
    /\ Goto(c, "done")
    /\ result' = [result EXCEPT ![c] = how]

\* Arguments that do not parse, a path that ValidatePath refuses, a context
\* that ended before the call, a process that does not start.
Refuse(c) ==
    /\ at[c] = "start"
    /\ Finish(c, "error")
    /\ UNCHANGED <<tool, flag, seen, fileVars, processVars, ctxDone>>

-----------------------------------------------------------------------------
(***************************************************************************)
(* Edit: lock, stat, read, replace, write back, unlock.                    *)
(***************************************************************************)

\* Mutant: LockPath makes a new mutex for every call.
LockFree_Always == TRUE

LockFree == locked = Nobody

Lock(c) ==
    /\ at[c] = "start" /\ tool[c] = "edit"
    /\ LockFree
    /\ locked' = c
    /\ Goto(c, "read")
    /\ UNCHANGED <<result, seen, file, temp, torn>>

\* Stat, the size limit and ReadFile: what was found, or an error.
Matches(c) == file.count[c] = 1 \/ (file.count[c] > 1 /\ flag[c])

ReadToEdit(c) ==
    /\ at[c] = "read" /\ tool[c] = "edit"
    /\ Matches(c)
    /\ seen' = [seen EXCEPT ![c] = file]
    /\ Goto(c, "create")
    /\ UNCHANGED <<result, fileVars>>

\* The deferred unlock runs with every return.
Unlock(c) == locked' = IF locked = c THEN Nobody ELSE locked

\* No such file, a directory, too large, no match, or several and not replace_all.
NothingToEdit(c) ==
    /\ at[c] = "read" /\ tool[c] = "edit"
    /\ Finish(c, "error")
    /\ Unlock(c)
    /\ UNCHANGED <<seen, file, temp, torn>>

\* strings.Replace with n = 1 where there is one occurrence, ReplaceAll else.
Edited(c) == [seen[c] EXCEPT !.count[c] = 0]

Edit(c) == Lock(c) \/ ReadToEdit(c) \/ NothingToEdit(c)

-----------------------------------------------------------------------------
(***************************************************************************)
(* Write: stat, then write; no lock is taken.  Read: open, then scan.      *)
(***************************************************************************)

StatToWrite(c) ==
    /\ at[c] = "start" /\ tool[c] = "write"
    /\ IF file # Missing /\ flag[c]
       THEN Finish(c, "error")
       ELSE Goto(c, "create") /\ UNCHANGED result
    /\ UNCHANGED <<seen, fileVars>>

\* The reader keeps what the name stood for when it opened it, whole, since a
\* rename puts another file under the name; a directory is listed.
ReadAll(c) ==
    /\ at[c] = "start" /\ tool[c] = "read"
    /\ Finish(c, IF file = Missing THEN "error" ELSE "ok")
    /\ UNCHANGED <<seen, fileVars>>

-----------------------------------------------------------------------------
(***************************************************************************)
(* AtomicWriteFile: CreateTemp, Write, Close and Chmod, Rename; a step     *)
(* that fails tries to remove the temporary file and ends the call.        *)
(***************************************************************************)

CreateTemp(c) ==
    /\ at[c] = "create"
    /\ temp' = [temp EXCEPT ![c] = "partial"]
    /\ Goto(c, "fill")
    /\ UNCHANGED <<result, seen, file, locked, torn>>

FillTemp(c) ==
    /\ at[c] = "fill"
    /\ temp' = [temp EXCEPT ![c] = "whole"]
    /\ Goto(c, "rename")
    /\ UNCHANGED <<result, seen, file, locked, torn>>

RenameFrom == {"rename"}

Rename(c) ==
    /\ at[c] \in RenameFrom
    /\ file' = IF tool[c] = "edit" THEN Edited(c) ELSE Written(c)
    /\ torn' = (torn \/ temp[c] # "whole")
    /\ temp' = [temp EXCEPT ![c] = "none"]
    /\ Finish(c, "ok")
    /\ Unlock(c)
    /\ UNCHANGED seen

\* MkdirAll, CreateTemp, Write, Close, Chmod or Rename returns an error; that
\* os.Remove fails then is not looked at.
WriteFails(c) ==
    /\ at[c] \in {"create", "fill", "rename"}
    /\ \E left \in {"none", temp[c]} : temp' = [temp EXCEPT ![c] = left]
    /\ Finish(c, "error")
    /\ Unlock(c)
    /\ UNCHANGED <<seen, file, torn>>

Write(c) == CreateTemp(c) \/ FillTemp(c) \/ Rename(c) \/ WriteFails(c)

FileStep(c) ==
    /\ Edit(c) \/ StatToWrite(c) \/ ReadAll(c) \/ Write(c)
    /\ UNCHANGED <<tool, flag, processVars, ctxDone>>

-----------------------------------------------------------------------------
(***************************************************************************)
(* The child process of bash and grep.                                     *)
(***************************************************************************)

\* Mutant: RunCommand does not read stderr before stdout has ended.
Start_StdoutFirst(c) ==
    /\ at[c] = "start" /\ tool[c] \in ProcessTools
    /\ process' = [process EXCEPT ![c] = "running"]
    /\ Goto(c, "copy")
    /\ UNCHANGED <<result, plan, pipe, copied, shut, drainer>>

\* RunCommand starts a goroutine that reads stderr; bash has none.
Start(c) ==
    /\ at[c] = "start" /\ tool[c] \in ProcessTools
    /\ process' = [process EXCEPT ![c] = "running"]
    /\ drainer' = [drainer EXCEPT ![c] = IF tool[c] = "grep" THEN "reading" ELSE @]
    /\ Goto(c, "copy")
    /\ UNCHANGED <<result, plan, pipe, copied, shut>>

\* A write to a full pipe blocks, also when the tool is in Wait and will not
\* read any more.
ProcessWrites(c) ==
    /\ process[c] = "running" /\ plan[c] # <<>>
    /\ pipe[c][Head(plan[c])] < PipeCap
    /\ pipe' = [pipe EXCEPT ![c][Head(plan[c])] = @ + 1]
    /\ plan' = [plan EXCEPT ![c] = Tail(@)]
    /\ UNCHANGED <<at, result, process, copied, shut, drainer>>

SilentOnStdout(c) == \A i \in DOMAIN plan[c] : plan[c][i] # "out"

\* It may close its stdout, or point it elsewhere, long before it exits.
ProcessShutsStdout(c) ==
    /\ process[c] = "running" /\ ~shut[c] /\ SilentOnStdout(c)
    /\ shut' = [shut EXCEPT ![c] = TRUE]
    /\ UNCHANGED <<at, result, process, plan, pipe, copied, drainer>>

\* It exits by itself; a shell may leave a background process that keeps the
\* pipes open.
ProcessEnds(c) ==
    /\ process[c] = "running" /\ plan[c] = <<>>
    /\ \E how \in {"ended"} \cup (IF tool[c] = "bash" THEN {"orphan"} ELSE {}) :
          process' = [process EXCEPT ![c] = how]
    /\ UNCHANGED <<at, result, plan, pipe, copied, shut, drainer>>

\* Mutant: only the shell is killed, not its process group.
Killable_ShellOnly == {"running"}

\* setProcAttr and setCancelFunc: SIGKILL to the process group.  A background
\* process that leaves the group (setsid) would not be reached: none does here.
Killable == {"running", "orphan"}

\* cmd.Cancel, called when the child context ends: after bash's or grep's
\* timeout, by the caller, or by RunCommand itself once the output is too long.
Kill(c) ==
    /\ at[c] \in {"copy", "wait"} /\ process[c] \in Killable
    /\ \/ ctxDone[c] # "no"
       \/ tool[c] = "grep" /\ at[c] = "wait" /\ copied[c] > MaxOutput
    /\ process' = [process EXCEPT ![c] = "killed"]
    /\ UNCHANGED <<at, result, plan, pipe, copied, shut, drainer>>

\* The write end of a pipe is closed when no process holds it any more.
WriteEndClosed(c, kind) ==
    process[c] \in {"ended", "killed"} \/ (kind = "out" /\ shut[c])

Drained(c, kind) == pipe[c][kind] = 0 /\ WriteEndClosed(c, kind)

Take(c, kind) ==
    /\ pipe[c][kind] > 0
    /\ pipe' = [pipe EXCEPT ![c][kind] = @ - 1]

CopyStdout(c) ==
    /\ at[c] = "copy" /\ copied[c] <= MaxOutput
    /\ Take(c, "out")
    /\ copied' = [copied EXCEPT ![c] = @ + 1]
    /\ UNCHANGED <<at, result, process, plan, shut, drainer>>

\* bash: io.MultiReader turns to stderr after the end of stdout, and both count
\* against the limit.
CopyStderrAfter(c) ==
    /\ tool[c] = "bash" /\ at[c] = "copy" /\ copied[c] <= MaxOutput
    /\ Drained(c, "out")
    /\ Take(c, "err")
    /\ copied' = [copied EXCEPT ![c] = @ + 1]
    /\ UNCHANGED <<at, result, process, plan, shut, drainer>>

\* RunCommand's goroutine reads stderr all along, without a limit.
CopyStderrAlong(c) ==
    /\ drainer[c] = "reading"
    /\ Take(c, "err")
    /\ UNCHANGED <<at, result, process, plan, copied, shut, drainer>>

StderrEnds(c) ==
    /\ drainer[c] = "reading" /\ Drained(c, "err")
    /\ drainer' = [drainer EXCEPT ![c] = "ended"]
    /\ UNCHANGED <<at, result, process, plan, pipe, copied, shut>>

\* Mutant: an output as long as the limit allows, plus one, is not cut.
Truncated_OffByOne(c) == copied[c] > MaxOutput + 1

\* LimitedReader with N = maxOutputBytes + 1.
Truncated(c) == copied[c] > MaxOutput

CopyEnds(c) ==
    /\ at[c] = "copy"
    /\ \/ copied[c] > MaxOutput
       \/ Drained(c, "out") /\ (tool[c] = "bash" => Drained(c, "err"))
    /\ Goto(c, "wait")
    /\ UNCHANGED <<result, processVars>>

\* cmd.Wait returns when the process is gone, also when it leaves an orphan;
\* RunCommand waits for the goroutine that reads stderr first.
WaitReturns(c) ==
    /\ at[c] = "wait"
    /\ tool[c] = "grep" => drainer[c] = "ended"
    /\ process[c] \in {"ended", "killed", "orphan"}

\* RunCommand looks first whether the output was too long.  A process that was
\* killed is reported by what ended its context, one that exited by its exit
\* code, or in the same way when the context ended before Wait returned.
Outcomes(c) ==
    IF tool[c] = "grep" /\ Truncated(c) THEN {"truncated"}
    ELSE IF process[c] = "killed" THEN {ctxDone[c]}
    ELSE {IF Truncated(c) THEN "truncated" ELSE "ok", "error"} \cup ({ctxDone[c]} \ {"no"})

CommandReturns(c) ==
    /\ WaitReturns(c)
    /\ \E how \in Outcomes(c) : Finish(c, how)
    /\ UNCHANGED processVars

\* What the child process does, and what the goroutines of the tool and of
\* os/exec do with it.
ProcessStep(c) ==
    /\ ProcessWrites(c) \/ ProcessShutsStdout(c) \/ ProcessEnds(c)
    /\ UNCHANGED <<tool, flag, seen, fileVars, ctxDone>>

CommandStep(c) ==
    /\ \/ Start(c) \/ Kill(c) \/ CopyStdout(c) \/ CopyStderrAfter(c)
       \/ CopyStderrAlong(c) \/ StderrEnds(c) \/ CopyEnds(c) \/ CommandReturns(c)
    /\ UNCHANGED <<tool, flag, seen, fileVars, ctxDone>>

\* The timeout runs out, or the caller cancels.
ContextEnds(c, how) ==
    /\ at[c] \in {"copy", "wait"} /\ ctxDone[c] = "no"
    /\ ctxDone' = [ctxDone EXCEPT ![c] = how]
    /\ UNCHANGED <<tool, flag, at, result, seen, fileVars, processVars>>

Next ==
    \E c \in Call :
        \/ Refuse(c) \/ FileStep(c) \/ ProcessStep(c) \/ CommandStep(c)
        \/ ContextEnds(c, "timeout") \/ ContextEnds(c, "cancelled")

\* Goroutines run and timeouts elapse; a child process may hang for ever.
Fairness ==
    \A c \in Call :
        /\ SF_vars(FileStep(c)) /\ WF_vars(CommandStep(c))
        /\ WF_vars(ContextEnds(c, "timeout"))

Spec == Init /\ [][Next]_vars /\ Fairness

-----------------------------------------------------------------------------
(***************************************************************************)
(* Properties.                                                             *)
(***************************************************************************)

\* LockPath (toolkit/filelock.go:32, edit_tool.go:136) and AtomicWriteFile
\* (toolkit/atomicwrite.go:34-77), across the calls and failures of all tools
\* on one file: no half-written content ever has the file's name, no call leaves
\* the lock behind, one that leaves a temporary file (os.Remove has failed as
\* well) reports an error, and as long as write, which takes no lock, stays out,
\* no edit that reported success is undone by another one that had read the file
\* before.
FilesKept ==
    /\ ~torn
    /\ \A c \in Call :
          at[c] = "done" => locked # c /\ (temp[c] # "none" => result[c] = "error")
    /\ (\A c \in Call : tool[c] # "write") =>
           \A c \in Call : tool[c] = "edit" /\ result[c] = "ok" => file.count[c] = 0

\* cmdrunner.go:67-92: RunCommand keeps up with its process.  While the process
\* runs and is blocked on a full stderr, the goroutine that reads stderr has been
\* started and has not ended, wherever RunCommand itself is; blocked on a full
\* stdout, RunCommand is still copying it, or has read past the limit and kills
\* the process.
NeverStuck ==
    \A c \in Call :
        tool[c] = "grep" /\ process[c] = "running" /\ plan[c] # <<>> =>
            LET kind == Head(plan[c]) IN
            pipe[c][kind] = PipeCap =>
                /\ kind = "err" => drainer[c] = "reading"
                /\ kind = "out" => at[c] = "copy" \/ copied[c] > MaxOutput

\* bash_tool.go:143-172, cmdrunner.go:78-125: a command reported as a success
\* exited by itself and left nobody with its pipes, and unless the result says it
\* was truncated, everything it wrote to stdout and to stderr was read; of
\* stdout (bash: of both together) no more than the limit.
SuccessIsWhole ==
    \A c \in Call :
        tool[c] \in ProcessTools /\ result[c] = "ok" =>
            /\ process[c] = "ended" /\ plan[c] = <<>>
            /\ pipe[c]["out"] = 0 /\ pipe[c]["err"] = 0
            /\ copied[c] <= MaxOutput

\* Every call returns: edits do not wait for ever on the lock, and a command that
\* hangs, stalls on a pipe nobody reads or leaves a background process is ended
\* by the timeout (bash_tool.go:122, bash_tool_unix.go:31), as long as the
\* background processes stay in the process group that is killed.
CallsReturn == \A c \in Call : <>(at[c] = "done")
==============================================================================
