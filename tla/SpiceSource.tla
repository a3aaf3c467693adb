---------------------------- MODULE SpiceSource ----------------------------
(***************************************************************************)
(* spice._SafeSourceReader: the expansion of an entry file and everything  *)
(* it includes into one list of logical lines, under limits on files,      *)
(* bytes and lines.  A file is a sequence of physical lines of one byte    *)
(* each: "text", a "more" line (leading +), a "note" (comment or blank),   *)
(* ".end", or an include, written as the path it names.                    *)
(***************************************************************************)
EXTENDS SpiceContext, Naturals, FiniteSets, FiniteSetsExt, Reachability, Checks

CONSTANTS
  Paths,      \* the files below the directory of the entry
  Entry,      \* the file the caller names
  Outside,    \* a path that leaves the directory of the entry
  Nowhere,    \* no path
  Inputs      \* [disk, limits]; a disk is path -> physical lines, or <<"missing">>, <<"garbled">>

ASSUME PathsAssumption ==
  /\ IsFiniteSet(Paths) /\ Entry \in Paths
  /\ Paths \cap {Outside, Nowhere, "text", ".end"} = {} /\ Outside \notin {"text", ".end"}
ASSUME DiskAssumption == \A input \in Inputs : \A p \in Paths : input.disk[p] \in Seq(ToSet(input.disk[p]))
ASSUME LimitsAssumption ==
  \A input \in Inputs :
    {input.limits.files, input.limits.file_bytes, input.limits.bytes, input.limits.lines} \subseteq Nat

VARIABLES
  disk,
  asked,      \* the argument of a _read_file call that is about to run, or Nowhere
  active,     \* the running calls: [path, next (line), ended, expanded]
  files,      \* the files read, in order; _visited is the set of them
  bytes, lines,
  reader,     \* "reading", "accepted", "returned", or the reason of the error raised
  source      \* what the outermost call returned

readerVars == <<disk, asked, active, files, bytes, lines, reader, source>>

ReaderInit ==
  /\ \E input \in Inputs : disk = input.disk /\ limits = input.limits
  /\ asked = Entry /\ active = <<>> /\ files = <<>>
  /\ bytes = 0 /\ lines = 0 /\ reader = "reading" /\ source = <<>>
-----------------------------------------------------------------------------
\* _logical_lines: the numbers of the lines that start a logical line.
Heads(p) == {i \in DOMAIN disk[p] : disk[p][i] \notin {"more", "note"}}
Orphan(p) == \E i \in DOMAIN disk[p] : disk[p][i] = "more" /\ \A h \in Heads(p) : h > i
Continued(p, head) ==
  \E i \in DOMAIN disk[p] : i > head /\ disk[p][i] = "more" /\ \A h \in Heads(p) : h \notin head + 1 .. i

IsIncluded(p) == p \in ToSet(files)

\* Mutant: the visited check comes first.
IsOpenUnread(p) == ~IsIncluded(p) /\ \E i \in DOMAIN active : active[i].path = p

IsOpen(p) == \E i \in DOMAIN active : active[i].path = p

\* What is left of the total is also a limit on the next file.
ReadLimit == Min({limits.file_bytes, limits.bytes - bytes})

\* _read_file up to its loop.  A file already read returns before the limits.
FileFailure(p) ==
  FirstFailure(<<
    <<IsOpen(p), "recursive">>,
    <<~IsIncluded(p) /\ Len(files) >= limits.files, "files">>,
    <<disk[p] = <<"missing">>, "unreadable">>,
    <<~IsIncluded(p) /\ Len(disk[p]) > ReadLimit /\ ReadLimit < limits.file_bytes, "bytes">>,
    <<~IsIncluded(p) /\ Len(disk[p]) > ReadLimit, "file bytes">>,
    <<disk[p] = <<"garbled">>, "unreadable">>,
    <<Orphan(p), "orphan">> >>)

Call(p) == reader = "reading" /\ asked = p /\ FileFailure(p) = Passed

RefuseFile ==
  /\ reader = "reading" /\ asked # Nowhere
  /\ FileFailure(asked) # Passed
  /\ reader' = FileFailure(asked)
  /\ UNCHANGED <<disk, asked, active, files, bytes, lines, source>>

SkipFile(p) ==
  /\ Call(p) /\ IsIncluded(p)
  /\ asked' = Nowhere
  /\ UNCHANGED <<disk, active, files, bytes, lines, reader, source>>

EnterFile(p) ==
  /\ Call(p) /\ ~IsIncluded(p)
  /\ bytes' = bytes + Len(disk[p])
  /\ files' = Append(files, p)
  /\ active' = Append(active, [path |-> p, next |-> 1, ended |-> FALSE, expanded |-> <<>>])
  /\ asked' = Nowhere
  /\ UNCHANGED <<disk, lines, reader, source>>

Frame == Last(active)
Left == {h \in Heads(Frame.path) : h >= Frame.next}    \* what its loop has left
Head1 == Min(Left)                                      \* the number of the line at hand
Line == disk[Frame.path][Head1]

\* The body of the loop of _read_file, up to the first error it raises.
ReadingFailure ==
  FirstFailure(<<
    <<lines + 1 > limits.lines, "lines">>,
    <<Frame.ended, "after end">>,
    <<Line = ".end" /\ Frame.path # Entry, "included end">>,
    <<Line # "text" /\ Continued(Frame.path, Head1), "arguments">>,
    <<Line = Outside, "escape">> >>)

AtLine ==
  /\ reader = "reading" /\ asked = Nowhere /\ active # <<>>
  /\ Left # {}

\* A line of the running call is done; changed is the call after it.
Advance(changed) ==
  /\ AtLine /\ ReadingFailure = Passed
  /\ lines' = lines + 1
  /\ active' = [active EXCEPT ![Len(active)] = [changed EXCEPT !.next = Head1 + 1]]
  /\ UNCHANGED <<disk, files, bytes, reader, source>>

RefuseLine ==
  /\ AtLine /\ ReadingFailure # Passed
  /\ reader' = ReadingFailure
  /\ UNCHANGED <<disk, asked, active, files, bytes, lines, source>>

TextLine == AtLine /\ Line = "text" /\ UNCHANGED asked
            /\ Advance([Frame EXCEPT !.expanded = Append(@, <<Frame.path, Head1>>)])
EndLine == AtLine /\ Line = ".end" /\ UNCHANGED asked /\ Advance([Frame EXCEPT !.ended = TRUE])
IncludeLine == AtLine /\ Line \in Paths /\ asked' = Line /\ Advance(Frame)

\* Mutant: the text of an included file goes before what its includer has read.
ExtendFront(expanded, included) == included \o expanded

Extend(expanded, included) == expanded \o included

\* The loop is done: the caller extends its own list, or read returns.
ReturnFile ==
  /\ reader = "reading" /\ asked = Nowhere /\ active # <<>>
  /\ Left = {}
  /\ IF Len(active) = 1
     THEN active' = <<>> /\ source' = Frame.expanded /\ reader' = "accepted"
     ELSE /\ active' = [Front(active) EXCEPT ![Len(active) - 1].expanded = Extend(@, Frame.expanded)]
          /\ UNCHANGED <<source, reader>>
  /\ UNCHANGED <<disk, asked, files, bytes, lines>>

ReaderNext ==
  \/ RefuseFile \/ \E p \in Paths : SkipFile(p) \/ EnterFile(p)
  \/ RefuseLine \/ TextLine \/ EndLine \/ IncludeLine \/ ReturnFile
-----------------------------------------------------------------------------
Includes == [p \in Paths |-> Paths \cap {disk[p][h] : h \in Heads(p)}]
Needed == Reachable(Includes, {Entry})
Total(counted(_)) == Cardinality(UNION {{p} \X counted(p) : p \in Needed})

\* Everything that is wrong with the directory, whatever order it is read in.
Defects ==
  {reason \in {"recursive", "files", "unreadable", "bytes", "file bytes", "orphan", "lines",
               "after end", "included end", "arguments", "escape"} :
    CASE reason = "recursive" -> \E p \in Needed : p \in Reachable(Includes, Includes[p])
      [] reason = "files" -> Cardinality(Needed) > limits.files
      [] reason = "unreadable" -> \E p \in Needed : disk[p] \in {<<"missing">>, <<"garbled">>}
      [] reason = "bytes" -> Total(LAMBDA p : DOMAIN disk[p]) > limits.bytes
      [] reason = "file bytes" -> \E p \in Needed : Len(disk[p]) > limits.file_bytes
      [] reason = "lines" -> Total(Heads) > limits.lines
      [] reason = "orphan" -> \E p \in Needed : Orphan(p)
      [] reason = "after end" -> \E g, h \in Heads(Entry) : g < h /\ disk[Entry][g] = ".end"
      [] reason = "included end" -> \E p \in Needed \ {Entry} : \E h \in Heads(p) : disk[p][h] = ".end"
      [] reason = "escape" -> \E p \in Needed : \E h \in Heads(p) : disk[p][h] = Outside
      [] OTHER -> \E p \in Needed : \E h \in Heads(p) : disk[p][h] # "text" /\ Continued(p, h)}

\* The reader accepts exactly the directories without a defect, a cycle
\* included, and the reason it gives is one of the defects there are.
VerdictIsTrue ==
  reader \notin {"reading", "returned"} => IF reader = "accepted" THEN Defects = {} ELSE reader \in Defects

\* The accepted text has every line of every file once, however often the file
\* is included, and no line that follows an include comes before the included.
EveryLineOnceInOrder ==
  reader = "accepted" =>
    /\ ToSet(files) = Needed
    /\ IsInjective(source)
    /\ ToSet(source) = UNION {{p} \X {h \in Heads(p) : disk[p][h] = "text"} : p \in Needed}
    /\ \A i, j \in DOMAIN source : i < j =>
         /\ source[i][1] = source[j][1] => source[i][2] < source[j][2]
         /\ ~\E h \in Heads(source[i][1]) : h < source[i][2] /\ disk[source[i][1]][h] = source[j][1]
=============================================================================
