------------------------------ MODULE FileTools ------------------------------
(***************************************************************************)
(* The file tools (core/tools/file_tools.go) on one file: write_file, also *)
(* to append, and edit_file, which reads the file, replaces a text that    *)
(* must be unique in it, and writes it; in between, somebody else may      *)
(* write the file.                                                         *)
(***************************************************************************)
EXTENDS Integers, FiniteSets, SequencesExt

CONSTANTS
    Words,      \* what a file is made of
    MaxLength,  \* bound: words in a file
    MaxOthers,  \* bound: times somebody else writes the file
    Faults,     \* what may fail: "write", "read"
    NoFile      \* the file does not exist

ASSUME BoundsAssumption == MaxLength \in Nat /\ MaxOthers \in Nat
ASSUME FaultsAssumption == Faults \subseteq {"write", "read"}
ASSUME NoFileAssumption == NoFile \notin Seq(Words)

Text == SeqOf(Words, MaxLength)

VARIABLES
    file,       \* the content of the file
    tool,       \* the edit in progress: what it read, and what it replaces
    report,     \* what the last call of a tool reported
    others      \* times somebody else wrote the file

fileVars == <<file, tool, report, others>>

NoEdit == [pc |-> "idle", read |-> <<>>, old |-> <<>>, new |-> <<>>]

FileInit ==
    /\ file = NoFile /\ tool = NoEdit
    /\ report = "none" /\ others = 0

Content == IF file = NoFile THEN <<>> ELSE file

-----------------------------------------------------------------------------
(* replaceEditContent *)

Length(s) == IF s = <<>> THEN 1 ELSE Len(s)

(* The places where the text o occurs in c. *)
Occurrences(c, o) ==
    {i \in 1..(Len(c) - Len(o) + 1) : SubSeq(c, i, i + Len(o) - 1) = o}

(* strings.Count goes on behind an occurrence it has found. *)
Count(c, o) ==
    LET from[i \in 1..(Len(c) + 2)] ==
            IF i > Len(c) + 1 THEN 0
            ELSE IF i \in Occurrences(c, o) THEN 1 + from[i + Length(o)]
            ELSE from[i + 1]
    IN  from[1]

(* strings.Replace of the first occurrence. *)
Replace(c, o, n) ==
    LET i == CHOOSE i \in Occurrences(c, o) : \A k \in Occurrences(c, o) : i <= k
    IN  SubSeq(c, 1, i - 1) \o n \o SubSeq(c, i + Len(o), Len(c))

(* Mutant: two occurrences are taken for one. *)
FoundFirst(c, o) == Occurrences(c, o) # {} /\ Count(c, o) <= 2

Found(c, o) == Occurrences(c, o) # {} /\ Count(c, o) <= 1

-----------------------------------------------------------------------------
(* os.WriteFile: the file holds the new content, or the file cannot be     *)
(* opened, or it is truncated and the writing breaks off.                  *)
WriteFile(c, ok) ==
    \/ ok /\ file' = c
    \/ ~ok /\ "write" \in Faults /\ file' \in {file} \cup Prefixes(c)

(* write_file instead of the old content. *)
Write(c) ==
    /\ tool.pc = "idle"
    /\ \E ok \in BOOLEAN :
          WriteFile(c, ok) /\ report' = IF ok THEN "ok" ELSE "error"
    /\ UNCHANGED <<tool, others>>

(* write_file at the end of the old content.  The error of opening the     *)
(* file is reported, that of writing is lost.                              *)
AppendTo(c) ==
    /\ tool.pc = "idle" /\ Len(Content) + Len(c) <= MaxLength
    /\ \/ file' = Content \o c /\ report' = "ok"
       \/ /\ "write" \in Faults
          /\ \/ UNCHANGED file /\ report' = "error"
             \/ \E p \in Prefixes(c) : file' = Content \o p /\ report' = "ok"
    /\ UNCHANGED <<tool, others>>

(* Mutant: the error of reading the file is not looked at. *)
EditReadUnchecked(o, n) ==
    /\ tool.pc = "idle"
    /\ IF Found(Content, o)
       THEN /\ Len(Replace(Content, o, n)) <= MaxLength
            /\ tool' = [pc |-> "edit", read |-> file, old |-> o, new |-> n]
            /\ UNCHANGED report
       ELSE report' = "error" /\ UNCHANGED tool
    /\ UNCHANGED <<file, others>>

(* edit_file reads the file, and refuses one it cannot read, and a text    *)
(* that is not there or not unique, ...                                    *)
EditRead(o, n) ==
    /\ tool.pc = "idle"
    /\ \/ /\ file # NoFile /\ Found(file, o)
          /\ Len(Replace(file, o, n)) <= MaxLength
          /\ tool' = [pc |-> "edit", read |-> file, old |-> o, new |-> n]
          /\ UNCHANGED report
       \/ /\ (file # NoFile /\ Found(file, o)) => "read" \in Faults
          /\ report' = "error" /\ UNCHANGED tool
    /\ UNCHANGED <<file, others>>

(* ... and writes what it made of it. *)
EditWrite ==
    /\ tool.pc = "edit"
    /\ \E ok \in BOOLEAN :
          /\ WriteFile(Replace(tool.read, tool.old, tool.new), ok)
          /\ report' = IF ok THEN "ok" ELSE "error"
    /\ tool' = NoEdit
    /\ UNCHANGED others

(* A person with an editor, or a command the bash tool has left running. *)
SomebodyWrites(c) ==
    /\ others < MaxOthers
    /\ others' = others + 1
    /\ file' = c
    /\ UNCHANGED <<tool, report>>

FileNext ==
    \/ \E c \in Text : Write(c) \/ AppendTo(c) \/ SomebodyWrites(c)
    \/ \E o, n \in Text : EditRead(o, n)
    \/ EditWrite

-----------------------------------------------------------------------------
(* Properties *)

FileTypeOK ==
    /\ file \in Text \cup {NoFile}
    /\ tool \in [pc : {"idle", "edit"}, read : Text, old : Text, new : Text]
    /\ report \in {"none", "ok", "error"}
    /\ others \in 0..MaxOthers

(* Two occurrences of o in c that do not overlap. *)
Apart(c, o) ==
    \E i, k \in Occurrences(c, o) : i < k /\ i + Length(o) <= k

(* An edit that reports success has replaced the text in one place and     *)
(* left the rest of what it read alone, and the text was in no other place *)
(* apart from that one.  The file is what the edit made of it, also when   *)
(* somebody else wrote it meanwhile.                                       *)
EditExact ==
    [][tool.pc = "edit" /\ tool'.pc = "idle" /\ report' = "ok" =>
        /\ \E p \in Prefixes(tool.read), s \in Suffixes(tool.read) :
              tool.read = p \o tool.old \o s /\ file' = p \o tool.new \o s
        /\ ~Apart(tool.read, tool.old)]_fileVars
=============================================================================
