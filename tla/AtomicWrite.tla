----------------------------- MODULE AtomicWrite -----------------------------
(***************************************************************************)
(* cli._write, the output layer of every command, run by several processes *)
(* on the same destination: the alias check, a temporary file beside the   *)
(* destination, then os.replace (--force) or os.link, then the finally     *)
(* clause.  A process may be killed between any two system calls; another  *)
(* program may create the destination, also as a link to the input.        *)
(*                                                                         *)
(* A directory maps names to inodes.  The inode of a writer's temporary    *)
(* file is named after the writer, and so is its temporary name (mkstemp   *)
(* makes both fresh); two more inodes are the protected input and a file   *)
(* that was there before.                                                  *)
(***************************************************************************)
EXTENDS FiniteSets

CONSTANTS
  Writers,    \* the processes
  Input,      \* the inode of the protected input
  Old,        \* the inode of some other program's file
  Nothing     \* no inode

\* mkstemp: a temporary file is a new inode, under a name nobody else has.
FreshAssumption ==
  /\ {"in", "out"} \cap Writers = {}
  /\ {Input, Old, Nothing} \cap Writers = {}
  /\ Input # Nothing /\ Old # Nothing
ASSUME FreshAssumption

Inodes == Writers \cup {Input, Old}
Names == Writers \cup {"in", "out"}

VARIABLES
  target,     \* writer -> the destination it was given
  forced,     \* writer -> whether --force was given
  directory,  \* name -> inode, or Nothing
  content,    \* inode -> "empty", "part" or "full": how much of its text it has
  at,         \* writer -> the system call it is about to make
  outcome     \* writer -> "none", "ok", or "error" once it is decided

vars == <<target, forced, directory, content, at, outcome>>

Init ==
  /\ target \in [Writers -> {"in", "out"}]
  /\ forced \in [Writers -> BOOLEAN]
  /\ \E there \in {Input, Old, Nothing} :
       directory = [n \in Names |-> CASE n = "in" -> Input [] n = "out" -> there [] OTHER -> Nothing]
  /\ content = [i \in Inodes |-> IF i \in Writers THEN "empty" ELSE "full"]
  /\ at = [w \in Writers |-> "check"]
  /\ outcome = [w \in Writers |-> "none"]
-----------------------------------------------------------------------------
Goto(w, here, there) == at[w] = here /\ at' = [at EXCEPT ![w] = there]
Decide(w, result) == outcome' = [outcome EXCEPT ![w] = result]
Exists(n) == directory[n] # Nothing

\* Mutant: --force also waives the protection of the inputs.
AliasesUnforced(w) ==
  ~forced[w] /\ (target[w] = "in" \/ (Exists("in") /\ directory[target[w]] = directory["in"]))

\* _paths_alias: the same path, or the same file.
Aliases(w) ==
  target[w] = "in" \/ (Exists("in") /\ directory[target[w]] = directory["in"])

Refuse(w) ==
  /\ Goto(w, "check", "ended")
  /\ Aliases(w)
  /\ Decide(w, "error")
  /\ UNCHANGED <<target, forced, directory, content>>

\* mkstemp raises OSError, before the try statement.
CreateFails(w) ==
  /\ Goto(w, "check", "ended")
  /\ ~Aliases(w)
  /\ Decide(w, "error")
  /\ UNCHANGED <<target, forced, directory, content>>

\* mkstemp
Create(w) ==
  /\ Goto(w, "check", "write")
  /\ ~Aliases(w)
  /\ directory' = [directory EXCEPT ![w] = w]
  /\ UNCHANGED <<target, forced, content, outcome>>

WriteSome(w) ==
  /\ at[w] = "write"
  /\ content[w] = "empty"
  /\ content' = [content EXCEPT ![w] = "part"]
  /\ UNCHANGED <<target, forced, directory, at, outcome>>

\* Mutant: published before the text is flushed.
FlushSkipped(w) ==
  /\ Goto(w, "write", "publish")
  /\ UNCHANGED <<target, forced, directory, content, outcome>>

\* The rest of the text, flush and fsync.
Flush(w) ==
  /\ Goto(w, "write", "publish")
  /\ content' = [content EXCEPT ![w] = "full"]
  /\ UNCHANGED <<target, forced, directory, outcome>>

\* Mutant: the error leaves the function without the finally clause.
WriteFailsEarly(w) ==
  /\ Goto(w, "write", "ended")
  /\ Decide(w, "error")
  /\ UNCHANGED <<target, forced, directory, content>>

\* write, flush, fsync, replace or link raises OSError.
WriteFails(w) ==
  /\ Goto(w, "write", "finally") \/ Goto(w, "publish", "finally")
  /\ Decide(w, "error")
  /\ UNCHANGED <<target, forced, directory, content>>

\* os.replace moves the temporary name onto the destination.
Replace(w) ==
  /\ Goto(w, "publish", "finally")
  /\ forced[w]
  /\ directory' = [directory EXCEPT ![target[w]] = w, ![w] = Nothing]
  /\ Decide(w, "ok")
  /\ UNCHANGED <<target, forced, content>>

\* os.link gives the inode a second name, if that name is free.
Link(w) ==
  /\ Goto(w, "publish", "finally")
  /\ ~forced[w] /\ ~Exists(target[w])
  /\ directory' = [directory EXCEPT ![target[w]] = w]
  /\ Decide(w, "ok")
  /\ UNCHANGED <<target, forced, content>>

LinkExists(w) ==
  /\ Goto(w, "publish", "finally")
  /\ ~forced[w] /\ Exists(target[w])
  /\ Decide(w, "error")
  /\ UNCHANGED <<target, forced, directory, content>>

\* finally: temporary.unlink(missing_ok=True)
Unlink(w) ==
  /\ Goto(w, "finally", "ended")
  /\ directory' = [directory EXCEPT ![w] = Nothing]
  /\ UNCHANGED <<target, forced, content, outcome>>

\* The process is killed; whatever it had done so far stays.
Killed(w) ==
  /\ at[w] \notin {"ended", "killed"}
  /\ at' = [at EXCEPT ![w] = "killed"]
  /\ UNCHANGED <<target, forced, directory, content, outcome>>

\* Another program creates the destination, or links it to the input.
OtherCreates(i) ==
  /\ ~Exists("out")
  /\ directory' = [directory EXCEPT !["out"] = i]
  /\ UNCHANGED <<target, forced, content, at, outcome>>

Next ==
  \/ \E w \in Writers :
       \/ Refuse(w) \/ CreateFails(w) \/ Create(w) \/ WriteSome(w) \/ Flush(w) \/ WriteFails(w)
       \/ Replace(w) \/ Link(w) \/ LinkExists(w) \/ Unlink(w) \/ Killed(w)
  \/ \E i \in {Input, Old} : OtherCreates(i)

Spec == Init /\ [][Next]_vars
-----------------------------------------------------------------------------
\* The values the variables take; every name holds an inode or nothing.
TypeOK ==
  /\ target \in [Writers -> {"in", "out"}] /\ forced \in [Writers -> BOOLEAN]
  /\ directory \in [Names -> Inodes \cup {Nothing}]
  /\ content \in [Inodes -> {"empty", "part", "full"}]
  /\ at \in [Writers -> {"check", "write", "publish", "finally", "ended", "killed"}]
  /\ outcome \in [Writers -> {"none", "ok", "error"}]

\* What a reader of the destination sees; a text not yet complete is torn.
Visible ==
  IF ~Exists("out") THEN Nothing
  ELSE IF content[directory["out"]] = "full" THEN directory["out"] ELSE "torn"

Abstract == INSTANCE OutputFile WITH Others <- {Input, Old}, visible <- Visible

\* However the writers interleave and wherever they are killed, the destination
\* changes from one complete text to another in one step, and only a forced
\* writer replaces one that is there.
PublishesAtomically == Abstract!Spec

\* architecture.md: the output layer "permanently protects all input aliases
\* even when explicit replacement was requested", although the destination may
\* become an alias after the check.
InputUntouched == directory["in"] = Input /\ content[Input] = "full"

\* What a writer reports is true.  One told of success without --force is the
\* one that published, and its text stays until a forced writer publishes; so no
\* two of them succeed.  One told of an error has published nothing under any
\* name; and whoever was not killed leaves no temporary file.
OutcomesAreTrue ==
  \A w \in Writers :
    /\ /\ outcome[w] = "ok" /\ ~forced[w]
       /\ ~\E v \in Writers : forced[v] /\ outcome[v] = "ok"
       => directory["out"] = w
    /\ at[w] = "ended" =>
         /\ directory[w] = Nothing
         /\ outcome[w] = "error" => \A n \in Names : directory[n] # w
=============================================================================
