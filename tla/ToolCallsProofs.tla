---------------------------- MODULE ToolCallsProofs ----------------------------
(***************************************************************************)
(* For every set of calls, every pipe capacity and every output: what the  *)
(* tools on one file leave behind, and what a command's result stands for. *)
(***************************************************************************)
EXTENDS ToolCalls, TLAPS

Pipes == [{"out", "err"} -> 0..PipeCap]

\* An edit keeps the content's type, also where nothing was read.
LEMMA EditedType ==
  ASSUME ToolsTypeOK, NEW c \in Call
  PROVE  Edited(c) \in Contents \cup {Missing}
<1> DEFINE new == [seen[c].count EXCEPT ![c] = 0]
<1>1. CASE seen[c] \in Contents
  <2>1. new \in [Call -> 0..2] /\ seen[c].by \in Call \cup {Nobody}
    BY <1>1 DEF Contents
  <2>2. Edited(c) = [by |-> seen[c].by, count |-> new]
    BY <1>1 DEF Edited, Contents
  <2> QED  BY <2>1, <2>2 DEF Contents
<1>2. CASE seen[c] = Missing
  <2>1. new = [d \in Call |-> 0]
    BY <1>2 DEF Missing
  <2>2. Edited(c) = [by |-> "missing", count |-> new]
    BY <1>2 DEF Edited, Missing
  <2> QED  BY <2>1, <2>2 DEF Missing
<1> QED  BY <1>1, <1>2 DEF ToolsTypeOK

\* A write that looks for the file, and a read, move their call or end it.
LEMMA OpensTyped ==
  ASSUME ToolsTypeOK, NEW c \in Call, StatToWrite(c) \/ ReadAll(c),
         UNCHANGED <<tool, flag, processVars, ctxDone>>
  PROVE  ToolsTypeOK'
<1>1. /\ at' = [at EXCEPT ![c] = "done"] \/ at' = [at EXCEPT ![c] = "create"]
      /\ \/ result' = [result EXCEPT ![c] = "ok"] \/ result' = [result EXCEPT ![c] = "error"]
         \/ result' = result
  BY DEF StatToWrite, ReadAll, Finish, Goto
<1>2. at' \in [Call -> At]
  <2>1. at \in [Call -> At]
    BY DEF ToolsTypeOK
  <2>2. "done" \in At /\ "create" \in At
    BY DEF At
  <2> QED  BY <1>1, <2>1, <2>2
<1>3. result' \in [Call -> Results]
  <2>1. result \in [Call -> Results]
    BY DEF ToolsTypeOK
  <2>2. "ok" \in Results /\ "error" \in Results
    BY DEF Results
  <2> QED  BY <1>1, <2>1, <2>2
<1>4. UNCHANGED <<tool, flag, seen, fileVars, processVars, ctxDone>>
  BY DEF StatToWrite, ReadAll
<1> QED  BY <1>2, <1>3, <1>4 DEF ToolsTypeOK, fileVars, processVars

\* Calls on the file keep the types.
LEMMA FileStepTyped ==
  ASSUME ToolsTypeOK, NEW c \in Call, FileStep(c)
  PROVE  ToolsTypeOK'
<1> USE DEF ToolsTypeOK, At, Results, Goto, Finish, Unlock, fileVars, processVars
<1>1. CASE Lock(c)
  BY <1>1 DEF Lock, FileStep
<1>2. CASE ReadToEdit(c)
  BY <1>2 DEF ReadToEdit, FileStep
<1>3. CASE NothingToEdit(c)
  BY <1>3 DEF NothingToEdit, FileStep
<1>4. CASE StatToWrite(c) \/ ReadAll(c)
  BY <1>4, OpensTyped DEF FileStep
<1>6. CASE CreateTemp(c) \/ FillTemp(c)
  BY <1>6 DEF CreateTemp, FillTemp, FileStep
<1>8. CASE WriteFails(c)
  <2>1. PICK left \in {"none", temp[c]} : temp' = [temp EXCEPT ![c] = left]
    BY <1>8 DEF WriteFails
  <2>2. left \in {"none", "partial", "whole"}
    OBVIOUS
  <2> QED  BY <1>8, <2>1, <2>2 DEF WriteFails, FileStep
<1>7. CASE Rename(c)
  <2>1. Written(c) \in Contents
    BY DEF Written, Contents
  <2>2. file' \in Contents \cup {Missing}
    BY <1>7, <2>1, EditedType DEF Rename
  <2>3. torn' \in BOOLEAN
    BY <1>7, Zenon DEF Rename
  <2> QED  BY <1>7, <2>2, <2>3 DEF Rename, FileStep
<1> QED  BY <1>1, <1>2, <1>3, <1>4, <1>6, <1>7, <1>8 DEF FileStep, Edit, Write

\* A process is killed when its context has ended, or its output is too long: a
\* command never returns for no reason.
KillReported ==
    \A c \in Call :
        process[c] = "killed" =>
            ctxDone[c] # "no" \/ (tool[c] = "grep" /\ copied[c] > MaxOutput)

\* What the process does keeps the types.
LEMMA ProcessStepTyped ==
  ASSUME ToolsTypeOK, KillReported, NEW c \in Call, ProcessStep(c)
  PROVE  ToolsTypeOK' /\ KillReported'
<1>0. UNCHANGED <<tool, flag, at, result, seen, fileVars, copied, drainer, ctxDone>>
  BY DEF ProcessStep, ProcessWrites, ProcessShutsStdout, ProcessEnds
<1>1. CASE ProcessWrites(c)
  <2> DEFINE k == Head(plan[c])
  <2>1. k \in {"out", "err"} /\ plan' \in [Call -> Seq({"out", "err"})]
    BY <1>1 DEF ToolsTypeOK, ProcessWrites
  <2>2. [pipe[c] EXCEPT ![k] = @ + 1] \in Pipes
    BY <1>1, <2>1, ToolsAssumption DEF ToolsTypeOK, Pipes, ProcessWrites
  <2>3. pipe' = [pipe EXCEPT ![c] = [pipe[c] EXCEPT ![k] = @ + 1]]
    BY <1>1 DEF ToolsTypeOK, ProcessWrites
  <2>4. pipe' \in [Call -> Pipes]
    BY <2>2, <2>3 DEF ToolsTypeOK, Pipes
  <2>5. UNCHANGED <<process, shut>>
    BY <1>1 DEF ProcessWrites
  <2> QED  BY <1>0, <2>1, <2>4, <2>5 DEF ToolsTypeOK, KillReported, fileVars, Pipes
<1>2. CASE ProcessEnds(c)
  <2>1. PICK how \in {"ended", "orphan"} : process' = [process EXCEPT ![c] = how]
    BY <1>2 DEF ProcessEnds
  <2>2. UNCHANGED <<plan, pipe, shut>>
    BY <1>2 DEF ProcessEnds
  <2> QED  BY <1>0, <2>1, <2>2 DEF ToolsTypeOK, KillReported, fileVars
<1>3. CASE ProcessShutsStdout(c)
  <2>1. shut' = [shut EXCEPT ![c] = TRUE] /\ UNCHANGED <<process, plan, pipe>>
    BY <1>3 DEF ProcessShutsStdout
  <2> QED  BY <1>0, <2>1 DEF ToolsTypeOK, KillReported, fileVars
<1> QED  BY <1>1, <1>2, <1>3 DEF ProcessStep

\* What the tool reads keeps the types: the copy stops one unit past the limit.
LEMMA CopyTyped ==
  ASSUME ToolsTypeOK, KillReported, NEW c \in Call, CommandStep(c),
         CopyStdout(c) \/ CopyStderrAfter(c) \/ CopyStderrAlong(c)
  PROVE  ToolsTypeOK' /\ KillReported'
<1> USE ToolsAssumption
<1>1. ASSUME NEW k \in {"out", "err"}, Take(c, k)
      PROVE  pipe' \in [Call -> Pipes]
  <2>1. [pipe[c] EXCEPT ![k] = @ - 1] \in Pipes
    BY <1>1 DEF ToolsTypeOK, Pipes, Take
  <2> QED  BY <1>1, <2>1 DEF ToolsTypeOK, Pipes, Take
<1>2. pipe' \in [Call -> Pipes]
  BY <1>1 DEF CopyStdout, CopyStderrAfter, CopyStderrAlong
<1>3. \/ copied' = copied
      \/ copied[c] <= MaxOutput /\ copied' = [copied EXCEPT ![c] = @ + 1]
  BY DEF CopyStdout, CopyStderrAfter, CopyStderrAlong
<1>4. /\ copied' \in [Call -> 0..(MaxOutput + 1)]
      /\ \A d \in Call : copied[d] > MaxOutput => copied'[d] > MaxOutput
  <2>1. MaxOutput \in Nat /\ copied \in [Call -> 0..(MaxOutput + 1)]
    BY DEF ToolsTypeOK
  <2>2. ASSUME copied[c] <= MaxOutput
        PROVE  copied[c] + 1 \in 0..(MaxOutput + 1)
    BY <2>1, <2>2
  <2> HIDE ToolsAssumption
  <2>3. CASE copied' = copied
    BY <2>1, <2>3
  <2>4. CASE copied[c] <= MaxOutput /\ copied' = [copied EXCEPT ![c] = @ + 1]
    BY <2>1, <2>2, <2>4
  <2> QED  BY <1>3, <2>3, <2>4
<1>5. UNCHANGED <<tool, flag, at, result, seen, fileVars, process, plan, shut, drainer, ctxDone>>
  BY DEF CopyStdout, CopyStderrAfter, CopyStderrAlong, CommandStep
<1> QED
  BY <1>2, <1>4, <1>5 DEF ToolsTypeOK, KillReported, Pipes, fileVars

\* So do its other steps.
LEMMA CommandStepTyped ==
  ASSUME ToolsTypeOK, KillReported, NEW c \in Call, CommandStep(c)
  PROVE  ToolsTypeOK' /\ KillReported'
<1> USE ToolsAssumption
<1>1. CASE CopyEnds(c)
  BY <1>1 DEF ToolsTypeOK, KillReported, fileVars, processVars, At, Goto, CopyEnds,
              CommandStep
<1>4. CASE Start(c)
  <2>1. PICK d \in {"reading", drainer[c]} : drainer' = [drainer EXCEPT ![c] = d]
    BY <1>4 DEF Start, ToolsTypeOK
  <2>2. /\ process' = [process EXCEPT ![c] = "running"] /\ at' = [at EXCEPT ![c] = "copy"]
        /\ UNCHANGED <<tool, flag, seen, fileVars, ctxDone, result, plan, pipe, copied, shut>>
    BY <1>4 DEF Start, CommandStep, Goto
  <2>3. d \in {"none", "reading", "ended"}
    BY DEF ToolsTypeOK
  <2> QED  BY <2>1, <2>2, <2>3 DEF ToolsTypeOK, KillReported, fileVars, At
<1>5. CASE Kill(c)
  <2>1. /\ process' = [process EXCEPT ![c] = "killed"]
        /\ ctxDone[c] # "no" \/ (tool[c] = "grep" /\ copied[c] > MaxOutput)
    BY <1>5 DEF Kill
  <2>2. UNCHANGED <<tool, flag, at, result, seen, fileVars, ctxDone, plan, pipe, copied, shut, drainer>>
    BY <1>5 DEF Kill, CommandStep
  <2> QED  BY <2>1, <2>2 DEF ToolsTypeOK, KillReported, fileVars
<1>6. CASE StderrEnds(c)
  <2>1. drainer' = [drainer EXCEPT ![c] = "ended"]
    BY <1>6 DEF StderrEnds
  <2>2. UNCHANGED <<tool, flag, at, result, seen, fileVars, ctxDone, process, plan, pipe, copied, shut>>
    BY <1>6 DEF StderrEnds, CommandStep
  <2> QED  BY <2>1, <2>2 DEF ToolsTypeOK, KillReported, fileVars
<1>2. CASE CopyStdout(c) \/ CopyStderrAfter(c) \/ CopyStderrAlong(c)
  BY <1>2, CopyTyped
<1>3. CASE CommandReturns(c)
  <2>1. Outcomes(c) \subseteq Results
    BY <1>3 DEF ToolsTypeOK, KillReported, Outcomes, Truncated, Results
  <2>2. PICK how \in Results : Finish(c, how)
    BY <1>3, <2>1 DEF CommandReturns
  <2> QED
    BY <1>3, <2>2 DEF ToolsTypeOK, KillReported, fileVars, processVars, At, Goto,
                      Finish, CommandReturns, CommandStep
<1> QED  BY <1>1, <1>2, <1>3, <1>4, <1>5, <1>6 DEF CommandStep

\* Every step keeps the types.
LEMMA ToolsTypeOKKept ==
  ASSUME ToolsTypeOK, KillReported, [Next]_vars
  PROVE  ToolsTypeOK' /\ KillReported'
<1>1. CASE UNCHANGED vars
  BY <1>1 DEF vars, fileVars, processVars, ToolsTypeOK, KillReported
<1>2. ASSUME NEW c \in Call, Refuse(c)
      PROVE  ToolsTypeOK' /\ KillReported'
  BY <1>2 DEF ToolsTypeOK, KillReported, fileVars, processVars, At, Results, Goto,
              Finish, Refuse
<1>3. ASSUME NEW c \in Call, FileStep(c)
      PROVE  ToolsTypeOK' /\ KillReported'
  BY <1>3, FileStepTyped DEF KillReported, processVars, FileStep
<1>4. ASSUME NEW c \in Call, NEW how \in {"timeout", "cancelled"}, ContextEnds(c, how)
      PROVE  ToolsTypeOK' /\ KillReported'
  BY <1>4 DEF ToolsTypeOK, KillReported, fileVars, processVars, ContextEnds
<1> QED
  BY <1>1, <1>2, <1>3, <1>4, ProcessStepTyped, CommandStepTyped DEF Next

\* The file, the lock, the temporary files and the processes keep their types.
THEOREM ToolsTyped == Spec => [](ToolsTypeOK /\ KillReported)
<1>1. Init => ToolsTypeOK /\ KillReported
  <2> SUFFICES ASSUME Init PROVE ToolsTypeOK /\ KillReported
    OBVIOUS
  <2>1. file \in Contents \cup {Missing}
    BY DEF Init, Contents
  <2>2. plan \in [Call -> Seq({"out", "err"})]
    BY ToolsAssumption DEF Init
  <2>3. torn \in BOOLEAN
    BY Zenon DEF Init
  <2> QED
    BY ToolsAssumption, <2>1, <2>2, <2>3 DEF Init, ToolsTypeOK, KillReported, At, Results
<1> QED  BY <1>1, ToolsTypeOKKept, PTL DEF Spec

-----------------------------------------------------------------------------
(***************************************************************************)
(* FilesKept.  It is not inductive: that a rename loses no edit rests on   *)
(* what the call has read still being the file, hence on the lock.         *)
(***************************************************************************)

Editing(c) == tool[c] = "edit" /\ at[c] \in {"read", "create", "fill", "rename"}

\* The lock is held by the edit between its read and its rename; a temporary
\* file is whole when it is renamed, and left only where a step has failed.
LockAndTemp ==
    /\ \A c \in Call : locked = c <=> Editing(c)
    /\ \A c \in Call :
          /\ at[c] \in {"create", "fill", "rename"} => tool[c] \in {"edit", "write"}
          /\ at[c] \in {"copy", "wait"} => tool[c] \in ProcessTools
          /\ at[c] = "rename" => temp[c] = "whole"
          /\ at[c] \notin {"fill", "rename", "done"} => temp[c] = "none"
          /\ at[c] = "done" /\ temp[c] # "none" => result[c] = "error"
    /\ ~torn

\* Where nobody writes without the lock, an edit's reading stays the file.
ReadingsCurrent ==
    (\A c \in Call : tool[c] # "write") =>
        \A c \in Call : tool[c] = "edit" =>
            /\ at[c] \in {"create", "fill", "rename"} => seen[c] = file
            /\ result[c] = "ok" => file.count[c] = 0

FilesInv == ToolsTypeOK /\ LockAndTemp /\ ReadingsCurrent

\* The file calls, and their failures, keep the lock and the temporary files.
LEMMA LockAndTempKept ==
  ASSUME FilesInv, NEW c \in Call, FileStep(c)
  PROVE  LockAndTemp'
<1> USE ToolsAssumption DEF FilesInv, ToolsTypeOK, LockAndTemp, Editing, Goto, Finish,
        Unlock, fileVars
<1>0. UNCHANGED tool
  BY DEF FileStep
<1>1. CASE Lock(c)
  BY <1>0, <1>1 DEF Lock, LockFree
<1>2. CASE ReadToEdit(c)
  BY <1>0, <1>2 DEF ReadToEdit
<1>3. CASE NothingToEdit(c)
  BY <1>0, <1>3 DEF NothingToEdit
<1>4. CASE StatToWrite(c) \/ ReadAll(c)
  <2>1. at[c] = "start" /\ UNCHANGED fileVars
    BY <1>4 DEF StatToWrite, ReadAll
  <2>2. PICK where \in {"create", "done"} :
            /\ at' = [at EXCEPT ![c] = where]
            /\ where = "create" => tool[c] = "write"
    BY <1>4 DEF StatToWrite, ReadAll
  <2>3. tool[c] \in {"write", "read"}
    BY <1>4 DEF StatToWrite, ReadAll
  <2>4. \A d \in Call : d # c => result'[d] = result[d]
    BY <1>4 DEF StatToWrite, ReadAll
  <2>5. temp[c] = "none"
    BY <2>1
  <2> QED  BY <1>0, <2>1, <2>2, <2>3, <2>4, <2>5
<1>5. CASE CreateTemp(c) \/ FillTemp(c)
  <2>1. PICK from \in {"create", "fill"} :
            /\ at[c] = from
            /\ at' = [at EXCEPT ![c] = IF from = "create" THEN "fill" ELSE "rename"]
            /\ temp' = [temp EXCEPT ![c] = IF from = "create" THEN "partial" ELSE "whole"]
    BY <1>5 DEF CreateTemp, FillTemp
  <2>2. UNCHANGED <<result, locked, torn>>
    BY <1>5 DEF CreateTemp, FillTemp
  <2>3. CASE from = "create"
    BY <1>0, <2>1, <2>2, <2>3
  <2>4. CASE from = "fill"
    BY <1>0, <2>1, <2>2, <2>4
  <2> QED  BY <2>3, <2>4
<1>6. CASE Rename(c)
  BY <1>0, <1>6 DEF Rename, RenameFrom
<1>7. CASE WriteFails(c)
  <2>1. PICK left \in {"none", temp[c]} : temp' = [temp EXCEPT ![c] = left]
    BY <1>7 DEF WriteFails
  <2>2. /\ at[c] \in {"create", "fill", "rename"} /\ at' = [at EXCEPT ![c] = "done"]
        /\ result' = [result EXCEPT ![c] = "error"] /\ torn' = torn
        /\ locked' = IF locked = c THEN Nobody ELSE locked
    BY <1>7 DEF WriteFails
  <2> QED  BY <1>0, <2>1, <2>2
<1> QED  BY <1>1, <1>2, <1>3, <1>4, <1>5, <1>6, <1>7 DEF FileStep, Edit, Write

\* They keep the readings current: only a rename changes the file, and it is the
\* rename of the call that holds the lock.
LEMMA ReadingsCurrentKept ==
  ASSUME FilesInv, NEW c \in Call, FileStep(c)
  PROVE  ReadingsCurrent'
<1>0. UNCHANGED tool
  BY DEF FileStep
<1>1. SUFFICES ASSUME \A d \in Call : tool[d] # "write",
                      NEW d \in Call, tool[d] = "edit"
               PROVE  /\ at'[d] \in {"create", "fill", "rename"} => seen'[d] = file'
                      /\ result'[d] = "ok" => file'.count[d] = 0
  BY <1>0 DEF ReadingsCurrent
<1>2. /\ at[d] \in {"create", "fill", "rename"} => seen[d] = file
      /\ result[d] = "ok" => file.count[d] = 0
  BY <1>1 DEF FilesInv, ReadingsCurrent
<1>3. CASE Edit(c) \/ StatToWrite(c) \/ ReadAll(c) \/ CreateTemp(c) \/ FillTemp(c)
           \/ WriteFails(c)
  <2>1. UNCHANGED file
    BY <1>3 DEF Edit, Lock, ReadToEdit, NothingToEdit, StatToWrite, ReadAll, CreateTemp,
                FillTemp, WriteFails, fileVars
  <2>2. /\ \/ at'[d] = at[d] \/ at'[d] \notin {"create", "fill", "rename"}
           \/ at[d] \in {"create", "fill"}
           \/ d = c /\ seen'[d] = file
        /\ seen'[d] = seen[d] \/ (d = c /\ seen'[d] = file)
        /\ result'[d] = result[d] \/ result'[d] = "error"
    BY <1>1, <1>3 DEF FilesInv, ToolsTypeOK, Edit, Lock, ReadToEdit, NothingToEdit,
                StatToWrite, ReadAll, CreateTemp, FillTemp, WriteFails, Goto, Finish
  <2> QED  BY <1>2, <2>1, <2>2
<1>4. CASE Rename(c)
  <2>1. tool[c] = "edit"
    BY <1>1, <1>4 DEF FilesInv, LockAndTemp, Rename, RenameFrom
  <2>2. at[c] = "rename" /\ seen[c] = file
    BY <1>1, <1>4, <2>1 DEF FilesInv, ReadingsCurrent, Rename, RenameFrom
  <2>3. file' = [file EXCEPT !.count[c] = 0]
    BY <1>4, <2>1, <2>2 DEF Rename, Edited
  <2>4. file.count \in [Call -> 0..2] /\ file'.count = [file.count EXCEPT ![c] = 0]
    BY <2>3 DEF FilesInv, ToolsTypeOK, Contents, Missing
  <2>5. CASE d = c
    BY <1>4, <2>4, <2>5 DEF FilesInv, ToolsTypeOK, Rename, Finish, Goto
  <2>6. CASE d # c
    <3>1. at[d] \notin {"create", "fill", "rename"}
      BY <1>1, <2>1, <2>2, <2>6 DEF FilesInv, LockAndTemp, Editing
    <3>2. at'[d] = at[d] /\ result'[d] = result[d]
      BY <1>4, <2>6 DEF FilesInv, ToolsTypeOK, Rename, Finish, Goto
    <3>3. file'.count[d] = file.count[d]
      BY <2>4, <2>6
    <3> QED  BY <1>2, <3>1, <3>2, <3>3
  <2> QED  BY <2>5, <2>6
<1> QED  BY <1>3, <1>4 DEF FileStep, Write

\* A command is not an edit, and keeps off the file.
LEMMA CommandKeepsFiles ==
  ASSUME FilesInv, NEW c \in Call, CommandStep(c)
  PROVE  LockAndTemp' /\ ReadingsCurrent'
<1>1. UNCHANGED <<tool, seen, file, locked, temp, torn>>
  BY DEF CommandStep, fileVars
<1>2. CASE CopyStderrAlong(c) \/ StderrEnds(c)
  <2>1. UNCHANGED <<at, result>>
    BY <1>2 DEF CopyStderrAlong, StderrEnds
  <2> QED  BY <1>1, <2>1 DEF FilesInv, LockAndTemp, ReadingsCurrent, Editing
<1>3. CASE Start(c) \/ Kill(c) \/ CopyStdout(c) \/ CopyStderrAfter(c) \/ CopyEnds(c)
           \/ CommandReturns(c)
  <2>1. /\ at[c] \in {"start", "copy", "wait"} /\ tool[c] \in ProcessTools
        /\ \/ UNCHANGED <<at, result>>
           \/ \E where \in {"copy", "wait", "done"} : at' = [at EXCEPT ![c] = where]
    BY <1>3 DEF FilesInv, LockAndTemp, Start, Kill, CopyStdout, CopyStderrAfter, CopyEnds,
                CommandReturns, WaitReturns, Finish, Goto
  <2>2. \A d \in Call : d # c => result'[d] = result[d] /\ at'[d] = at[d]
    BY <1>3 DEF FilesInv, ToolsTypeOK, Start, Kill, CopyStdout, CopyStderrAfter, CopyEnds,
                CommandReturns, Finish, Goto
  <2>3. /\ at'[c] \in {"start", "copy", "wait", "done"} /\ tool[c] \notin {"edit", "write"}
        /\ at'[c] # at[c] => at'[c] \in {"copy", "wait", "done"}
        /\ temp[c] = "none"
    BY <2>1 DEF FilesInv, ToolsTypeOK, LockAndTemp, ProcessTools
  <2>4. LockAndTemp'
    BY <1>1, <2>1, <2>2, <2>3 DEF FilesInv, LockAndTemp, Editing
  <2>5. ReadingsCurrent'
    BY <1>1, <2>2, <2>3 DEF FilesInv, ReadingsCurrent
  <2> QED  BY <2>4, <2>5
<1> QED  BY <1>2, <1>3 DEF CommandStep

\* FilesInv is inductive.
LEMMA FilesInvKept ==
  ASSUME FilesInv, KillReported, [Next]_vars
  PROVE  FilesInv'
<1>1. ToolsTypeOK'
  BY ToolsTypeOKKept DEF FilesInv
<1>2. CASE UNCHANGED vars
  BY <1>1, <1>2 DEF vars, fileVars, FilesInv, LockAndTemp, ReadingsCurrent, Editing
<1>3. ASSUME NEW c \in Call, Refuse(c)
      PROVE  LockAndTemp' /\ ReadingsCurrent'
  <2>1. UNCHANGED <<tool, seen, file, locked, temp, torn>>
    BY <1>3 DEF Refuse, fileVars
  <2>2. /\ at[c] = "start" /\ at' = [at EXCEPT ![c] = "done"]
        /\ result' = [result EXCEPT ![c] = "error"]
    BY <1>3 DEF Refuse, Finish, Goto
  <2>3. LockAndTemp'
    BY <2>1, <2>2 DEF FilesInv, ToolsTypeOK, LockAndTemp, Editing
  <2>4. ReadingsCurrent'
    BY <2>1, <2>2 DEF FilesInv, ToolsTypeOK, ReadingsCurrent
  <2> QED  BY <2>3, <2>4
<1>4. ASSUME NEW c \in Call, ProcessStep(c) \/ \E how \in {"timeout", "cancelled"} : ContextEnds(c, how)
      PROVE  LockAndTemp' /\ ReadingsCurrent'
  <2>1. UNCHANGED <<tool, at, result, seen, file, locked, temp, torn>>
    BY <1>4 DEF ProcessStep, ProcessWrites, ProcessShutsStdout, ProcessEnds, ContextEnds,
                fileVars
  <2> QED  BY <2>1 DEF FilesInv, LockAndTemp, ReadingsCurrent, Editing
<1> QED
  BY <1>1, <1>2, <1>3, <1>4, LockAndTempKept, ReadingsCurrentKept, CommandKeepsFiles
     DEF FilesInv, Next

\* It holds at the start, and so for ever.
LEMMA FilesInvHolds == Spec => []FilesInv
<1>1. Init /\ ToolsTypeOK => FilesInv
  <2> SUFFICES ASSUME Init, ToolsTypeOK PROVE FilesInv
    OBVIOUS
  <2>1. LockAndTemp
    BY ToolsAssumption DEF Init, LockAndTemp, Editing
  <2> QED  BY <2>1 DEF Init, ReadingsCurrent, FilesInv
<1> QED  BY <1>1, FilesInvKept, ToolsTyped, PTL DEF Spec

\* LockPath and AtomicWriteFile, for any number of concurrent calls, each of whose
\* steps may fail: no torn file, no lock left behind, a temporary file only where an
\* error is reported, and, as long as every writer is an edit, no lost edit.
THEOREM FilesSafe == Spec => []FilesKept
<1>1. FilesInv => FilesKept
  <2> SUFFICES ASSUME FilesInv PROVE FilesKept
    OBVIOUS
  <2>1. \A c \in Call : at[c] = "done" =>
            locked # c /\ (temp[c] # "none" => result[c] = "error")
    BY DEF FilesInv, LockAndTemp, Editing
  <2>2. ~torn
    BY DEF FilesInv, LockAndTemp
  <2>3. ReadingsCurrent
    BY DEF FilesInv
  <2> QED  BY <2>1, <2>2, <2>3 DEF FilesKept, ReadingsCurrent
<1> QED  BY <1>1, FilesInvHolds, PTL

-----------------------------------------------------------------------------
(***************************************************************************)
(* NeverStuck and SuccessIsWhole.  What a result stands for rests on why   *)
(* the copy ended: at the limit, or at the end of the pipes' writers; and  *)
(* on the goroutine that reads stderr, which lives as long as the process. *)
(***************************************************************************)

Gone(c) == process[c] \in {"ended", "killed"}

Whole(c) ==
    /\ process[c] = "ended" /\ plan[c] = <<>>
    /\ pipe[c]["out"] = 0 /\ pipe[c]["err"] = 0
    /\ copied[c] <= MaxOutput

\* After a copy that ended before the limit stdout is at its end: nobody has it
\* open, or the process has shut it and will not write there.
CopiedAll(c) ==
    /\ pipe[c]["out"] = 0 /\ (Gone(c) \/ shut[c])
    /\ tool[c] = "bash" => Gone(c) /\ pipe[c]["err"] = 0

CommandInv(c) ==
    /\ at[c] = "start" => process[c] = "none"
    /\ tool[c] = "grep" /\ process[c] = "running" =>
           at[c] \in {"copy", "wait"} /\ drainer[c] = "reading"
    /\ drainer[c] = "ended" => Gone(c) /\ pipe[c]["err"] = 0
    /\ process[c] \in {"ended", "orphan"} => plan[c] = <<>>
    /\ shut[c] => SilentOnStdout(c)
    /\ at[c] = "wait" /\ copied[c] <= MaxOutput => CopiedAll(c)
    /\ result[c] = "ok" => at[c] = "done"
    /\ tool[c] \in ProcessTools /\ result[c] = "ok" => Whole(c)

CommandsInv == \A c \in Call : CommandInv(c)

\* A step of one call leaves the others alone.
LEMMA OtherCalls ==
  ASSUME ToolsTypeOK, NEW c \in Call, NEW d \in Call, d # c, CommandInv(d),
         \/ Refuse(c) \/ FileStep(c) \/ ProcessStep(c) \/ CommandStep(c)
         \/ \E how \in {"timeout", "cancelled"} : ContextEnds(c, how)
  PROVE  CommandInv(d)'
<1>1. tool' = tool
  BY DEF Refuse, FileStep, ProcessStep, CommandStep, ContextEnds
<1>2. at'[d] = at[d] /\ result'[d] = result[d]
  <2>1. CASE Refuse(c) \/ FileStep(c)
    BY <2>1 DEF ToolsTypeOK, Goto, Finish, Refuse, FileStep, Edit, Lock, ReadToEdit,
                NothingToEdit, StatToWrite, ReadAll, Write, CreateTemp, FillTemp, Rename,
                WriteFails
  <2>2. CASE ProcessStep(c)
    BY <2>2 DEF ProcessStep, ProcessWrites, ProcessShutsStdout, ProcessEnds
  <2>3. CASE CommandStep(c)
    BY <2>3 DEF ToolsTypeOK, Goto, Finish, CommandStep, Start, Kill, CopyStdout,
                CopyStderrAfter, CopyStderrAlong, StderrEnds, CopyEnds, CommandReturns
  <2> QED  BY <2>1, <2>2, <2>3 DEF ContextEnds
<1>3. /\ process'[d] = process[d] /\ plan'[d] = plan[d] /\ shut'[d] = shut[d]
      /\ pipe'[d] = pipe[d] /\ copied'[d] = copied[d] /\ drainer'[d] = drainer[d]
  <2>1. CASE ProcessStep(c)
    BY <2>1 DEF ToolsTypeOK, ProcessStep, ProcessWrites, ProcessShutsStdout, ProcessEnds
  <2>2. CASE Start(c) \/ Kill(c) \/ StderrEnds(c)
    BY <2>2 DEF ToolsTypeOK, Start, Kill, StderrEnds
  <2>3. CASE CopyStdout(c) \/ CopyStderrAfter(c) \/ CopyStderrAlong(c)
    BY <2>3 DEF ToolsTypeOK, CopyStdout, CopyStderrAfter, CopyStderrAlong, Take
  <2>4. CASE CopyEnds(c) \/ CommandReturns(c)
    BY <2>4 DEF CopyEnds, CommandReturns, processVars
  <2>5. CASE CommandStep(c)
    BY <2>2, <2>3, <2>4, <2>5 DEF CommandStep
  <2> QED  BY <2>1, <2>5 DEF Refuse, FileStep, ContextEnds, processVars
<1>4. shut'[d] => SilentOnStdout(d)'
  BY <1>3 DEF CommandInv, SilentOnStdout
<1> QED  BY <1>1, <1>2, <1>3, <1>4 DEF CommandInv, CopiedAll, Whole, Gone

\* The process writes, shuts its stdout or ends.
LEMMA ProcessStepKeeps ==
  ASSUME ToolsTypeOK, NEW c \in Call, CommandInv(c), ProcessStep(c)
  PROVE  CommandInv(c)'
<1>1. UNCHANGED <<tool, at, result, copied, drainer>>
  BY DEF ProcessStep, ProcessWrites, ProcessShutsStdout, ProcessEnds
<1>2. process[c] = "running"
  BY DEF ProcessStep, ProcessWrites, ProcessShutsStdout, ProcessEnds
<1>3. CASE ProcessWrites(c)
  <2>1. UNCHANGED <<process, shut>>
    BY <1>3 DEF ProcessWrites
  <2>2. plan'[c] = Tail(plan[c]) /\ plan[c] # <<>> /\ plan[c] \in Seq({"out", "err"})
    BY <1>3 DEF ToolsTypeOK, ProcessWrites
  <2>3. SilentOnStdout(c) => SilentOnStdout(c)'
    BY <2>2 DEF SilentOnStdout
  <2>4. SilentOnStdout(c) => pipe'[c]["out"] = pipe[c]["out"]
    <3>1. SilentOnStdout(c) => Head(plan[c]) # "out"
      BY <2>2 DEF SilentOnStdout
    <3> QED  BY <1>3, <3>1 DEF ToolsTypeOK, ProcessWrites
  <2> QED  BY <1>1, <1>2, <2>1, <2>3, <2>4 DEF CommandInv, CopiedAll, Whole, Gone
<1>4. CASE ProcessEnds(c)
  <2>1. process'[c] \in {"ended", "orphan"}
    BY <1>4 DEF ToolsTypeOK, ProcessEnds
  <2>2. plan[c] = <<>> /\ UNCHANGED <<plan, pipe, shut>>
    BY <1>4 DEF ProcessEnds
  <2> QED
    BY <1>1, <1>2, <2>1, <2>2 DEF CommandInv, CopiedAll, Whole, Gone, SilentOnStdout
<1>5. CASE ProcessShutsStdout(c)
  <2>1. SilentOnStdout(c) /\ shut'[c] = TRUE /\ UNCHANGED <<process, plan, pipe>>
    BY <1>5 DEF ToolsTypeOK, ProcessShutsStdout
  <2> QED  BY <1>1, <1>2, <2>1 DEF CommandInv, CopiedAll, Whole, Gone, SilentOnStdout
<1> QED  BY <1>3, <1>4, <1>5 DEF ProcessStep

\* The tool reads the command's output.
LEMMA CopyKeeps ==
  ASSUME ToolsTypeOK, NEW c \in Call, CommandInv(c), CommandStep(c),
         CopyStdout(c) \/ CopyStderrAfter(c) \/ CopyStderrAlong(c)
  PROVE  CommandInv(c)'
<1>1. UNCHANGED <<tool, at, result, process, plan, shut, drainer>>
  BY DEF CommandStep, CopyStdout, CopyStderrAfter, CopyStderrAlong
<1>2. CASE CopyStdout(c) \/ CopyStderrAfter(c)
  <2>1. at[c] = "copy"
    BY <1>2 DEF CopyStdout, CopyStderrAfter
  <2>2. pipe[c]["err"] = 0 => pipe'[c]["err"] = pipe[c]["err"]
    BY <1>2 DEF ToolsTypeOK, CopyStdout, CopyStderrAfter, Take
  <2> QED  BY <1>1, <2>1, <2>2 DEF CommandInv, Gone, SilentOnStdout
<1>3. CASE CopyStderrAlong(c)
  <2>1. drainer[c] = "reading" /\ pipe[c]["err"] > 0 /\ UNCHANGED copied
    BY <1>3 DEF CopyStderrAlong, Take
  <2>2. pipe'[c]["out"] = pipe[c]["out"]
    BY <1>3 DEF ToolsTypeOK, CopyStderrAlong, Take
  <2>3. pipe[c]["err"] # 0
    BY <2>1 DEF ToolsTypeOK
  <2> QED
    BY <1>1, <2>1, <2>2, <2>3 DEF CommandInv, CopiedAll, Whole, Gone, SilentOnStdout
<1> QED  BY <1>2, <1>3

\* The tool starts the command, waits for the ends of its pipes and reports it.
LEMMA CommandStepKeeps ==
  ASSUME ToolsTypeOK, NEW c \in Call, CommandInv(c), CommandStep(c)
  PROVE  CommandInv(c)'
<1>0. tool' = tool
  BY DEF CommandStep
<1>1. CASE Start(c)
  <2>1. /\ at[c] = "start" /\ at'[c] = "copy" /\ process'[c] = "running"
        /\ tool[c] = "grep" => drainer'[c] = "reading"
        /\ drainer'[c] = "ended" => drainer[c] = "ended"
        /\ UNCHANGED <<result, plan, pipe, copied, shut>>
    BY <1>1 DEF ToolsTypeOK, Start, Goto
  <2> QED  BY <1>0, <2>1 DEF CommandInv, Gone, SilentOnStdout
<1>2. CASE CopyStdout(c) \/ CopyStderrAfter(c) \/ CopyStderrAlong(c)
  BY <1>2, CopyKeeps
<1>3. CASE Kill(c)
  <2>1. /\ process[c] \in {"running", "orphan"} /\ process'[c] = "killed"
        /\ at[c] \in {"copy", "wait"}
        /\ UNCHANGED <<at, result, plan, pipe, copied, shut, drainer>>
    BY <1>3 DEF ToolsTypeOK, Kill, Killable
  <2> QED  BY <1>0, <2>1 DEF CommandInv, CopiedAll, Whole, Gone, SilentOnStdout
<1>4. CASE StderrEnds(c)
  <2>1. /\ Gone(c) /\ pipe[c]["err"] = 0
        /\ UNCHANGED <<at, result, process, plan, pipe, copied, shut>>
    BY <1>4 DEF StderrEnds, Drained, WriteEndClosed, Gone
  <2> QED  BY <1>0, <2>1 DEF CommandInv, CopiedAll, Whole, Gone, SilentOnStdout
<1>5. CASE CopyEnds(c)
  <2>1. /\ copied[c] \in Nat /\ MaxOutput \in Nat /\ at[c] = "copy" /\ at'[c] = "wait"
        /\ UNCHANGED <<result, process, plan, pipe, copied, shut, drainer>>
    BY <1>5, ToolsAssumption DEF ToolsTypeOK, CopyEnds, Goto, processVars
  <2>2. copied[c] > MaxOutput \/ CopiedAll(c)
    BY <1>5 DEF CopyEnds, Drained, WriteEndClosed, CopiedAll, Gone
  <2>3. ~(copied[c] > MaxOutput /\ copied[c] <= MaxOutput)
    BY <2>1
  <2>4. copied[c] <= MaxOutput => CopiedAll(c)'
    BY <1>0, <2>1, <2>2, <2>3 DEF CopiedAll, Gone
  <2> QED  BY <1>0, <2>1, <2>4 DEF CommandInv, Whole, Gone, SilentOnStdout
<1>6. CASE CommandReturns(c)
  <2>1. PICK how \in Outcomes(c) : Finish(c, how)
    BY <1>6 DEF CommandReturns
  <2>2. /\ at[c] = "wait" /\ WaitReturns(c)
        /\ UNCHANGED <<process, plan, pipe, copied, shut, drainer>>
    BY <1>6 DEF CommandReturns, WaitReturns, processVars
  <2>3. at'[c] = "done" /\ result'[c] = how
    BY <2>1 DEF ToolsTypeOK, Finish, Goto
  <2>4. copied[c] \in Nat /\ MaxOutput \in Nat /\ ctxDone[c] \in {"no", "timeout", "cancelled"}
    BY ToolsAssumption DEF ToolsTypeOK
  <2>5. how = "ok" => copied[c] <= MaxOutput /\ process[c] # "killed"
    BY <2>1, <2>4 DEF Outcomes, Truncated
  <2>6. tool[c] = "grep" => Gone(c) /\ pipe[c]["err"] = 0
    BY <2>2 DEF CommandInv, WaitReturns
  <2>7. how = "ok" /\ tool[c] \in ProcessTools => Whole(c)
    BY <2>2, <2>5, <2>6 DEF CommandInv, CopiedAll, Whole, Gone, ProcessTools
  <2> QED
    BY <1>0, <2>2, <2>3, <2>6, <2>7 DEF CommandInv, Whole, Gone, SilentOnStdout
<1> QED  BY <1>1, <1>2, <1>3, <1>4, <1>5, <1>6 DEF CommandStep

\* The calls on the file are not commands.
LEMMA FileStepKeeps ==
  ASSUME ToolsTypeOK, LockAndTemp, NEW c \in Call, CommandInv(c), FileStep(c) \/ Refuse(c)
  PROVE  CommandInv(c)'
<1> USE DEF CopiedAll, Whole, Gone, SilentOnStdout
<1>1. UNCHANGED <<tool, process, plan, pipe, copied, shut, drainer>>
  BY DEF FileStep, Refuse, processVars
<1>2. CASE Refuse(c)
  <2>1. at[c] = "start" /\ at'[c] = "done" /\ result'[c] = "error"
    BY <1>2 DEF ToolsTypeOK, Refuse, Finish, Goto
  <2> QED  BY <1>1, <2>1 DEF CommandInv
<1>3. CASE FileStep(c)
  <2>1. tool[c] \in FileTools
    BY <1>3 DEF LockAndTemp, FileTools, FileStep, Edit, Lock, ReadToEdit, NothingToEdit,
                StatToWrite, ReadAll, Write, CreateTemp, FillTemp, Rename, RenameFrom,
                WriteFails
  <2>2. at[c] \in {"start", "read", "create", "fill", "rename"}
    BY <1>3 DEF FileStep, Edit, Lock, ReadToEdit, NothingToEdit, StatToWrite, ReadAll,
                Write, CreateTemp, FillTemp, Rename, RenameFrom, WriteFails
  <2>3. /\ at'[c] \in {"read", "create", "fill", "rename", "done"}
        /\ result'[c] = result[c] \/ at'[c] = "done"
    BY <1>3 DEF ToolsTypeOK, Finish, Goto, FileStep, Edit, Lock, ReadToEdit, NothingToEdit,
                StatToWrite, ReadAll, Write, CreateTemp, FillTemp, Rename, WriteFails
  <2>4. tool[c] \notin ProcessTools
    BY <2>1 DEF FileTools, ProcessTools
  <2>5. tool[c] # "grep"
    BY <2>4 DEF ProcessTools
  <2> QED  BY <1>1, <2>2, <2>3, <2>4, <2>5 DEF CommandInv
<1> QED  BY <1>2, <1>3

\* CommandsInv is inductive, given the types and which tool is where.
LEMMA CommandsInvKept ==
  ASSUME ToolsTypeOK, LockAndTemp, CommandsInv, [Next]_vars
  PROVE  CommandsInv'
<1>1. CASE UNCHANGED vars
  BY <1>1 DEF vars, processVars, CommandsInv, CommandInv, CopiedAll, Whole, Gone, SilentOnStdout
<1>2. ASSUME NEW c \in Call, NEW how \in {"timeout", "cancelled"}, ContextEnds(c, how)
      PROVE  CommandInv(c)'
  BY <1>2 DEF ContextEnds, processVars, CommandsInv, CommandInv, CopiedAll, Whole, Gone,
              SilentOnStdout
<1> QED
  BY <1>1, <1>2, OtherCalls, ProcessStepKeeps, CommandStepKeeps, FileStepKeeps
     DEF CommandsInv, Next

\* It holds at the start, and so for ever.
LEMMA CommandsInvHolds == Spec => [](ToolsTypeOK /\ CommandsInv)
<1>1. Init => CommandsInv
  BY DEF Init, CommandsInv, CommandInv
<1>2. FilesInv => LockAndTemp
  BY DEF FilesInv
<1> QED
  BY <1>1, <1>2, FilesInvHolds, CommandsInvKept, ToolsTyped, PTL DEF Spec

\* Wherever RunCommand is, a process blocked on a full stderr has a goroutine that
\* reads it, and one blocked on a full stdout is read or killed, for every capacity
\* of the pipes and every output.
THEOREM ReadersKeepUp == Spec => []NeverStuck
<1>1. ToolsTypeOK /\ CommandsInv => NeverStuck
  <2> SUFFICES ASSUME ToolsTypeOK, CommandsInv, NEW c \in Call, tool[c] = "grep",
                      process[c] = "running", plan[c] # <<>>
               PROVE  /\ drainer[c] = "reading"
                      /\ Head(plan[c]) = "out" => at[c] = "copy" \/ copied[c] > MaxOutput
    BY DEF NeverStuck
  <2>1. copied[c] \in Nat /\ MaxOutput \in Nat
    BY ToolsAssumption DEF ToolsTypeOK
  <2>2. /\ at[c] \in {"copy", "wait"} /\ drainer[c] = "reading"
        /\ shut[c] => SilentOnStdout(c)
        /\ at[c] = "wait" /\ copied[c] <= MaxOutput => CopiedAll(c)
    BY DEF CommandsInv, CommandInv
  <2>3. SilentOnStdout(c) => Head(plan[c]) # "out"
    BY DEF ToolsTypeOK, SilentOnStdout
  <2> QED  BY <2>1, <2>2, <2>3 DEF CopiedAll, Gone
<1> QED  BY <1>1, CommandsInvHolds, PTL

\* A success of a process tool stands for a process that exited by itself and for
\* all it wrote to stdout and stderr, wherever the limit is.
THEOREM SuccessStandsForAll == Spec => []SuccessIsWhole
<1>1. CommandsInv => SuccessIsWhole
  BY DEF CommandsInv, CommandInv, Whole, SuccessIsWhole
<1> QED  BY <1>1, CommandsInvHolds, PTL
================================================================================
