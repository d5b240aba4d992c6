------------------------------ MODULE EventLog ------------------------------
(***************************************************************************)
(* The file of the event log (balancecheck/spine/events.py): a sequence of *)
(* lines, of which only the last may lack its newline.  A line holds an    *)
(* event, or the stump of one (Stump) that no reader can parse.            *)
(***************************************************************************)
EXTENDS Integers, Sequences, SequencesExt

CONSTANTS Stump      \* the text of an event cut short

Line(what) == [what |-> what, ended |-> TRUE]
Unended(what) == [what |-> what, ended |-> FALSE]

TornTail(file) == file # << >> /\ ~Last(file).ended

\* The newline that keeps what follows off a stump's line.
Seal(file) ==
    IF TornTail(file) THEN Append(Front(file), Line(Last(file).what)) ELSE file

\* Lines are counted whether they are ended or not.
LineCount(file) == Len(file)

\* Seeded fault: the stump is not sealed, so that its line swallows the event.
Appended_Glued(file, event) ==
    IF TornTail(file) THEN Append(Front(file), Line(Stump))
                      ELSE Append(file, Line(event))

\* append_event: the file after it, and the offset it returns.
Appended(file, event) == Append(Seal(file), Line(event))

AppendOffset(file) == LineCount(file)

\* What a kill inside append_event can leave: any prefix of its write.
CutShort(file, event) ==
    {file, Seal(file), Append(Seal(file), Unended(Stump)),
     Append(Seal(file), Unended(event))}

\* The lines read_events raises on.
Stumps(file) == {k \in DOMAIN file : file[k].what = Stump}

=============================================================================
