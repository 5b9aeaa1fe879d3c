------------------------------- MODULE Skills -------------------------------
(***************************************************************************)
(* How the system prompt gets its skills (core/agent/skills.go, called by  *)
(* BuildSystemPrompt of core/agent/context.go).  Every SKILL.md is read    *)
(* several times while one prompt is built: to see whether what it         *)
(* requires is there, whether it is to be included always, for its text,   *)
(* and for its line in the summary.  In between its author may edit it,    *)
(* and commands may be installed and removed.                              *)
(***************************************************************************)
EXTENDS Naturals, FiniteSets

CONSTANTS
    SkillNames,     \* directories under skills/
    Commands,       \* commands a skill may require
    EnvVars,        \* environment variables a skill may require
    Environment,    \* those that are set; a process keeps its own
    MaxEdits,       \* bound: edits and installations
    Absent          \* there is no SKILL.md

ASSUME EnvironmentAssumption == Environment \subseteq EnvVars
ASSUME NamesAssumption == Commands \cap EnvVars = {} /\ Absent \notin SkillNames
ASSUME MaxEditsAssumption == MaxEdits \in Nat

(* A SKILL.md: the frontmatter is missing, is not YAML, has one line or    *)
(* has several; what its author marks and requires in it.                  *)
NoMeta == [always |-> FALSE, needs |-> {}]
Meta == [always : BOOLEAN, needs : SUBSET (Commands \cup EnvVars)]
File == [front : {"one line", "lines"}, meta : Meta]
            \cup [front : {"none", "broken"}, meta : {NoMeta}]

ASSUME AbsentAssumption == Absent \notin File

VARIABLES
    files,      \* the SKILL.md of each skill
    installed,  \* the commands that are found
    edits,      \* edits and installations so far
    pc,         \* the loop the agent is in
    todo,       \* the skills it has still to visit
    found,      \* the skills the loop keeps
    reading,    \* the skill of a summary line, and what it requires
    active,     \* the skills included with their text
    summary,    \* the lines of the summary
    touched     \* history: skills changed since the prompt was begun

vars == <<files, installed, edits, pc, todo, found, reading, active, summary, touched>>

Nobody == [name |-> Absent, needs |-> {}]

Init ==
    /\ files \in [SkillNames -> File \cup {Absent}]
    /\ installed \in SUBSET Commands
    /\ edits = 0
    /\ pc = "done" /\ todo = {} /\ found = {} /\ reading = Nobody
    /\ active = {} /\ summary = {} /\ touched = SkillNames

-----------------------------------------------------------------------------
(* Reading a skill *)

(* The dot of the expression for a frontmatter does not match a newline:   *)
(* between its two lines of dashes there may only be one line.             *)
GetSkillMetadata(s) ==
    IF files[s] # Absent /\ files[s].front = "one line" THEN files[s].meta ELSE NoMeta

Have == installed \cup Environment

(* Mutant: the environment is not looked at. *)
CheckRequirementsOfCommands(needs) == needs \cap Commands \subseteq Have

CheckRequirements(needs) == needs \subseteq Have
GetMissingRequirements(needs) == needs \ Have

SkillEntries == {s \in SkillNames : files[s] # Absent}

-----------------------------------------------------------------------------
(* Building the prompt *)

(* GetAlwaysSkills lists the directories, ... *)
ListSkills ==
    /\ pc = "done"
    /\ pc' = "check" /\ todo' = SkillEntries /\ found' = {}
    /\ active' = {} /\ summary' = {} /\ touched' = {}
    /\ UNCHANGED <<files, installed, edits, reading>>

(* ... keeps the skills whose requirements are met, ... *)
CheckSkill(s) ==
    /\ pc = "check" /\ s \in todo
    /\ todo' = todo \ {s}
    /\ found' = IF CheckRequirements(GetSkillMetadata(s).needs) THEN found \cup {s} ELSE found
    /\ UNCHANGED <<files, installed, edits, pc, reading, active, summary, touched>>

Checked ==
    /\ pc = "check" /\ todo = {}
    /\ pc' = "always" /\ todo' = found /\ found' = {}
    /\ UNCHANGED <<files, installed, edits, reading, active, summary, touched>>

(* ... and reads these again for the mark. *)
AlwaysSkill(s) ==
    /\ pc = "always" /\ s \in todo
    /\ todo' = todo \ {s}
    /\ found' = IF GetSkillMetadata(s).always THEN found \cup {s} ELSE found
    /\ UNCHANGED <<files, installed, edits, pc, reading, active, summary, touched>>

AlwaysSkillsFound ==
    /\ pc = "always" /\ todo = {}
    /\ pc' = "load" /\ todo' = found /\ found' = {}
    /\ UNCHANGED <<files, installed, edits, reading, active, summary, touched>>

(* LoadSkillsForContext; a file that has gone is left out. *)
LoadSkill(s) ==
    /\ pc = "load" /\ s \in todo
    /\ todo' = todo \ {s}
    /\ active' = IF files[s] # Absent THEN active \cup {s} ELSE active
    /\ UNCHANGED <<files, installed, edits, pc, found, reading, summary, touched>>

(* BuildSkillsSummary lists the directories again. *)
ListSkillsAgain ==
    /\ pc = "load" /\ todo = {}
    /\ pc' = "summary" /\ todo' = SkillEntries
    /\ UNCHANGED <<files, installed, edits, found, reading, active, summary, touched>>

Line(s, ok, missing) == [name |-> s, available |-> ok, missing |-> missing]

(* A skill whose requirements are met has its line; ... *)
SummarizeSkill(s) ==
    /\ pc = "summary" /\ reading = Nobody /\ s \in todo
    /\ todo' = todo \ {s}
    /\ LET needs == GetSkillMetadata(s).needs IN
       IF CheckRequirements(needs)
       THEN summary' = summary \cup {Line(s, TRUE, {})} /\ UNCHANGED reading
       ELSE reading' = [name |-> s, needs |-> needs] /\ UNCHANGED summary
    /\ UNCHANGED <<files, installed, edits, pc, found, active, touched>>

(* Mutant: a line is written although nobody is missing anything. *)
SummarizeMissingAlways ==
    /\ pc = "summary"
    /\ summary' = summary \cup
           {Line(reading.name, FALSE, GetMissingRequirements(reading.needs))}
    /\ reading' = Nobody
    /\ UNCHANGED <<files, installed, edits, pc, todo, found, active, touched>>

(* ... for another the commands are looked up once more. *)
SummarizeMissing ==
    /\ reading # Nobody
    /\ summary' = summary \cup
           {Line(reading.name, FALSE, GetMissingRequirements(reading.needs))}
    /\ reading' = Nobody
    /\ UNCHANGED <<files, installed, edits, pc, todo, found, active, touched>>

PromptBuilt ==
    /\ pc = "summary" /\ todo = {} /\ reading = Nobody
    /\ pc' = "done"
    /\ UNCHANGED <<files, installed, edits, todo, found, reading, active, summary, touched>>

-----------------------------------------------------------------------------
(* Authors and users *)

Unbuilt == <<pc, todo, found, reading, active, summary>>

EditSkill(s) ==
    /\ edits < MaxEdits /\ edits' = edits + 1
    /\ \E f \in File \cup {Absent} : files' = [files EXCEPT ![s] = f]
    /\ touched' = touched \cup {s}
    /\ UNCHANGED <<installed, Unbuilt>>

InstallOrRemove(c) ==
    /\ edits < MaxEdits /\ edits' = edits + 1
    /\ installed' = IF c \in installed THEN installed \ {c} ELSE installed \cup {c}
    /\ touched' = touched \cup {s \in SkillEntries : c \in files[s].meta.needs}
    /\ UNCHANGED <<files, Unbuilt>>

-----------------------------------------------------------------------------
Next ==
    \/ ListSkills \/ Checked \/ AlwaysSkillsFound \/ ListSkillsAgain
    \/ SummarizeMissing \/ PromptBuilt
    \/ \E s \in SkillNames :
          CheckSkill(s) \/ AlwaysSkill(s) \/ LoadSkill(s) \/ SummarizeSkill(s) \/ EditSkill(s)
    \/ \E c \in Commands : InstallOrRemove(c)

Spec == Init /\ [][Next]_vars

-----------------------------------------------------------------------------
(* Properties *)

(* Type correctness. *)
TypeOK ==
    /\ files \in [SkillNames -> File \cup {Absent}]
    /\ installed \subseteq Commands
    /\ edits \in 0..MaxEdits
    /\ pc \in {"check", "always", "load", "summary", "done"}
    /\ todo \subseteq SkillNames /\ found \subseteq SkillNames
    /\ reading \in [name : SkillNames \cup {Absent}, needs : SUBSET (Commands \cup EnvVars)]
    /\ active \subseteq SkillNames
    /\ summary \subseteq [name : SkillNames, available : BOOLEAN,
                          missing : SUBSET (Commands \cup EnvVars)]
    /\ touched \subseteq SkillNames

Usable(s) == GetSkillMetadata(s).needs \subseteq Have
LineOf(s) == Line(s, Usable(s), GetSkillMetadata(s).needs \ Have)

(* Whatever happens to other skills while the prompt is built, a skill     *)
(* that does not change, and whose commands do not, is in the prompt as it *)
(* is: included if and only if it is marked and usable, and with one line  *)
(* of the summary, which names what it lacks; the reads and the two        *)
(* listings agree on it.                                                   *)
PromptIsCurrent ==
    pc = "done" =>
        \A s \in SkillNames \ touched :
            /\ s \in active <=> s \in SkillEntries /\ GetSkillMetadata(s).always /\ Usable(s)
            /\ {l \in summary : l.name = s} = IF s \in SkillEntries THEN {LineOf(s)} ELSE {}

(* The skills marked as always whose requirements are met are returned.    *)
AlwaysSkillsReturned ==
    pc = "done" =>
        \A s \in SkillEntries \ touched :
            files[s].meta.always /\ files[s].meta.needs \subseteq Have => s \in active
=============================================================================
