---------------------------- MODULE SkillsProofs ----------------------------
(***************************************************************************)
(* For any skills, commands and variables, and any number of edits: what   *)
(* does not change while a prompt is built is in the prompt as it is.      *)
(*                                                                         *)
(* The invariant says of each untouched skill how far it has come: which   *)
(* loop it is in, whether this loop still has to visit it, and that        *)
(* everything decided about it so far is still true.                       *)
(* It also tells the one cause of the finding AlwaysSkillsReturned.        *)
(***************************************************************************)
EXTENDS Skills, TLAPS

Ready(s) == s \in SkillEntries /\ Usable(s)
Wanted(s) == s \in SkillEntries /\ GetSkillMetadata(s).always /\ Usable(s)
LinesFor(s) == {l \in summary : l.name = s}

InCheck(s) ==
    /\ s \notin active /\ LinesFor(s) = {}
    /\ s \in todo => s \in SkillEntries /\ s \notin found
    /\ s \notin todo => (s \in found <=> Ready(s))

InAlways(s) ==
    /\ s \notin active /\ LinesFor(s) = {}
    /\ s \in todo => Ready(s) /\ s \notin found
    /\ s \notin todo => (s \in found <=> Wanted(s))

InLoad(s) ==
    /\ LinesFor(s) = {}
    /\ s \in todo => Wanted(s) /\ s \notin active
    /\ s \notin todo => (s \in active <=> Wanted(s))

InSummary(s) ==
    /\ s \in active <=> Wanted(s)
    /\ s \in todo => s \in SkillEntries /\ LinesFor(s) = {} /\ reading.name # s
    /\ reading.name = s =>
          /\ s \in SkillEntries /\ LinesFor(s) = {}
          /\ ~Usable(s) /\ reading.needs = GetSkillMetadata(s).needs
    /\ s \notin todo /\ reading.name # s =>
          LinesFor(s) = IF s \in SkillEntries THEN {LineOf(s)} ELSE {}

InDone(s) ==
    /\ s \in active <=> Wanted(s)
    /\ LinesFor(s) = IF s \in SkillEntries THEN {LineOf(s)} ELSE {}

(* How far an untouched skill has come. *)
Progress(s) ==
    /\ pc = "check" => InCheck(s)
    /\ pc = "always" => InAlways(s)
    /\ pc = "load" => InLoad(s)
    /\ pc = "summary" => InSummary(s)
    /\ pc = "done" => InDone(s)

PromptInv ==
    /\ files \in [SkillNames -> File \cup {Absent}]
    /\ pc \in {"check", "always", "load", "summary", "done"}
    /\ reading # Nobody => pc = "summary"
    /\ \A s \in SkillNames \ touched : Progress(s)

(* What is said of a skill only depends on its file and on the commands.   *)
LEMMA SameSkill ==
    ASSUME NEW s, files'[s] = files[s], installed' = installed, s \in SkillNames
    PROVE  /\ (s \in SkillEntries)' <=> s \in SkillEntries
           /\ GetSkillMetadata(s)' = GetSkillMetadata(s)
           /\ Usable(s)' <=> Usable(s)
           /\ Ready(s)' <=> Ready(s)
           /\ Wanted(s)' <=> Wanted(s)
           /\ LineOf(s)' = LineOf(s)
<1>1. /\ (s \in SkillEntries)' <=> s \in SkillEntries
      /\ GetSkillMetadata(s)' = GetSkillMetadata(s)
      /\ Have' = Have
  BY DEF SkillEntries, GetSkillMetadata, Have
<1>2. /\ Usable(s)' <=> Usable(s)
      /\ LineOf(s)' = LineOf(s)
  BY <1>1 DEF Usable, LineOf, Line
<1> QED  BY <1>1, <1>2 DEF Ready, Wanted

(* A command that the author of a skill does not require may come or go.   *)
LEMMA OtherCommand ==
    ASSUME PromptInv, NEW s \in SkillNames, NEW c \in Commands,
           InstallOrRemove(c), s \notin touched'
    PROVE  /\ (s \in SkillEntries)' <=> s \in SkillEntries
           /\ GetSkillMetadata(s)' = GetSkillMetadata(s)
           /\ Usable(s)' <=> Usable(s)
           /\ Ready(s)' <=> Ready(s)
           /\ Wanted(s)' <=> Wanted(s)
           /\ LineOf(s)' = LineOf(s)
<1>1. /\ (s \in SkillEntries)' <=> s \in SkillEntries
      /\ GetSkillMetadata(s)' = GetSkillMetadata(s)
  BY DEF SkillEntries, GetSkillMetadata, InstallOrRemove
<1>2. c \notin GetSkillMetadata(s).needs
  <2>1. CASE s \in SkillEntries
    <3>1. c \notin files[s].meta.needs
      BY <2>1 DEF InstallOrRemove
    <3> QED  BY <3>1 DEF GetSkillMetadata, NoMeta
  <2>2. CASE s \notin SkillEntries
    BY <2>2 DEF SkillEntries, GetSkillMetadata, NoMeta
  <2> QED  BY <2>1, <2>2
<1>3. \A x : x # c => (x \in Have' <=> x \in Have)
  BY DEF InstallOrRemove, Have
<1>4. /\ Usable(s)' <=> Usable(s)
      /\ GetSkillMetadata(s).needs \ Have' = GetSkillMetadata(s).needs \ Have
  BY <1>1, <1>2, <1>3 DEF Usable
<1>5. LineOf(s)' = LineOf(s)
  <2>1. Usable(s)' = Usable(s)
    BY <1>4 DEF Usable
  <2> QED  BY <1>1, <1>4, <2>1 DEF LineOf, Line
<1>6. /\ Ready(s)' <=> Ready(s)
      /\ Wanted(s)' <=> Wanted(s)
  BY <1>1, <1>4 DEF Ready, Wanted
<1> QED  BY <1>1, <1>4, <1>5, <1>6

(* A new line is a line of the skill it names and of no other. *)
LEMMA NewLine ==
    ASSUME NEW t, NEW b, NEW x, summary' = summary \cup {Line(t, b, x)}
    PROVE  /\ LinesFor(t)' = LinesFor(t) \cup {Line(t, b, x)}
           /\ \A s : s # t => LinesFor(s)' = LinesFor(s)
<1>1. Line(t, b, x).name = t
  BY DEF Line
<1> QED  BY <1>1 DEF LinesFor

(* The invariant holds initially. *)
LEMMA PromptInit == Init => PromptInv
BY DEF Init, PromptInv

(* The invariant is preserved by every step. *)
LEMMA PromptNext == PromptInv /\ [Next]_vars => PromptInv'
<1> SUFFICES ASSUME PromptInv, [Next]_vars PROVE PromptInv'
  OBVIOUS
<1> USE NamesAssumption
<1>a. ASSUME files' = files, installed' = installed, NEW s \in SkillNames
      PROVE  /\ (s \in SkillEntries)' <=> s \in SkillEntries
             /\ GetSkillMetadata(s)' = GetSkillMetadata(s)
             /\ Usable(s)' <=> Usable(s)
             /\ Ready(s)' <=> Ready(s)
             /\ Wanted(s)' <=> Wanted(s)
             /\ LineOf(s)' = LineOf(s)
  BY <1>a, SameSkill
<1>b. ASSUME summary' = summary, NEW s PROVE LinesFor(s)' = LinesFor(s)
  BY <1>b DEF LinesFor
<1>c. \A s \in SkillNames : Nobody.name # s
  BY DEF Nobody
<1>1. CASE ListSkills
  <2>1. SUFFICES ASSUME NEW s \in SkillNames PROVE InCheck(s)'
    BY <1>1 DEF ListSkills, PromptInv, Progress
  <2>2. LinesFor(s)' = {}
    BY <1>1 DEF ListSkills, LinesFor
  <2> QED  BY <1>1, <1>a, <2>2 DEF ListSkills, InCheck, Ready
<1>2. ASSUME NEW t \in SkillNames, CheckSkill(t) PROVE PromptInv'
  <2>1. SUFFICES ASSUME NEW s \in SkillNames \ touched, InCheck(s) PROVE InCheck(s)'
    BY <1>2 DEF CheckSkill, PromptInv, Progress
  <2>2. LinesFor(s)' = LinesFor(s)
    BY <1>2, <1>b DEF CheckSkill
  <2>3. CheckRequirements(GetSkillMetadata(s).needs) <=> Usable(s)
    BY DEF CheckRequirements, Usable
  <2> QED  BY <1>2, <1>a, <2>1, <2>2, <2>3 DEF CheckSkill, InCheck, Ready
<1>3. CASE Checked
  <2>1. SUFFICES ASSUME NEW s \in SkillNames \ touched, InCheck(s) PROVE InAlways(s)'
    BY <1>3 DEF Checked, PromptInv, Progress
  <2>2. LinesFor(s)' = LinesFor(s)
    BY <1>3, <1>b DEF Checked
  <2> QED  BY <1>3, <1>a, <2>1, <2>2 DEF Checked, InCheck, InAlways, Ready, Wanted
<1>4. ASSUME NEW t \in SkillNames, AlwaysSkill(t) PROVE PromptInv'
  <2>1. SUFFICES ASSUME NEW s \in SkillNames \ touched, InAlways(s) PROVE InAlways(s)'
    BY <1>4 DEF AlwaysSkill, PromptInv, Progress
  <2>2. LinesFor(s)' = LinesFor(s)
    BY <1>4, <1>b DEF AlwaysSkill
  <2> QED  BY <1>4, <1>a, <2>1, <2>2 DEF AlwaysSkill, InAlways, Ready, Wanted
<1>5. CASE AlwaysSkillsFound
  <2>1. SUFFICES ASSUME NEW s \in SkillNames \ touched, InAlways(s) PROVE InLoad(s)'
    BY <1>5 DEF AlwaysSkillsFound, PromptInv, Progress
  <2>2. LinesFor(s)' = LinesFor(s)
    BY <1>5, <1>b DEF AlwaysSkillsFound
  <2> QED  BY <1>5, <1>a, <2>1, <2>2 DEF AlwaysSkillsFound, InAlways, InLoad
<1>6. ASSUME NEW t \in SkillNames, LoadSkill(t) PROVE PromptInv'
  <2>1. SUFFICES ASSUME NEW s \in SkillNames \ touched, InLoad(s) PROVE InLoad(s)'
    BY <1>6 DEF LoadSkill, PromptInv, Progress
  <2>2. LinesFor(s)' = LinesFor(s)
    BY <1>6, <1>b DEF LoadSkill
  <2>3. s \in todo => files[s] # Absent
    BY <2>1 DEF InLoad, Wanted, SkillEntries
  <2> QED  BY <1>6, <1>a, <2>1, <2>2, <2>3 DEF LoadSkill, InLoad
<1>7. CASE ListSkillsAgain
  <2>1. SUFFICES ASSUME NEW s \in SkillNames \ touched, InLoad(s) PROVE InSummary(s)'
    BY <1>7 DEF ListSkillsAgain, PromptInv, Progress
  <2>2. LinesFor(s)' = LinesFor(s) /\ reading' = Nobody
    BY <1>7, <1>b DEF ListSkillsAgain, PromptInv
  <2> QED  BY <1>7, <1>a, <1>c, <2>1, <2>2 DEF ListSkillsAgain, InLoad, InSummary
<1>8. ASSUME NEW t \in SkillNames, SummarizeSkill(t) PROVE PromptInv'
  <2>1. SUFFICES ASSUME NEW s \in SkillNames \ touched, InSummary(s) PROVE InSummary(s)'
    BY <1>8 DEF SummarizeSkill, PromptInv, Progress
  <2> DEFINE needs == GetSkillMetadata(t).needs
  <2>2. CheckRequirements(needs) <=> Usable(t)
    BY DEF CheckRequirements, Usable
  <2>3. CASE Usable(t)
    <3>1. summary' = summary \cup {Line(t, TRUE, {})} /\ reading' = Nobody
      BY <1>8, <2>2, <2>3 DEF SummarizeSkill
    <3>2. Line(t, TRUE, {}) = LineOf(t)
      BY <2>3 DEF LineOf, Usable
    <3>3. s # t => LinesFor(s)' = LinesFor(s)
      BY <3>1, NewLine
    <3>4. LinesFor(t)' = LinesFor(t) \cup {LineOf(t)}
      BY <3>1, <3>2, NewLine
    <3> QED  BY <1>8, <1>a, <1>c, <2>1, <3>1, <3>3, <3>4 DEF SummarizeSkill, InSummary
  <2>4. CASE ~Usable(t)
    <3>1. /\ summary' = summary
          /\ reading' = [name |-> t, needs |-> needs]
      BY <1>8, <2>2, <2>4 DEF SummarizeSkill
    <3>2. LinesFor(s)' = LinesFor(s)
      BY <3>1, <1>b
    <3> QED  BY <1>8, <1>a, <1>c, <2>1, <2>4, <3>1, <3>2 DEF SummarizeSkill, InSummary
  <2> QED  BY <2>3, <2>4
<1>9. CASE SummarizeMissing
  <2>0. pc = "summary"
    BY <1>9 DEF SummarizeMissing, PromptInv
  <2>1. SUFFICES ASSUME NEW s \in SkillNames \ touched, InSummary(s) PROVE InSummary(s)'
    BY <1>9, <2>0 DEF SummarizeMissing, PromptInv, Progress
  <2> DEFINE missing == GetMissingRequirements(reading.needs)
  <2>2. /\ summary' = summary \cup {Line(reading.name, FALSE, missing)}
        /\ reading' = Nobody
    BY <1>9 DEF SummarizeMissing
  <2>3. CASE s = reading.name
    <3>a. Usable(s) = FALSE /\ reading.needs = GetSkillMetadata(s).needs
      BY <2>1, <2>3 DEF InSummary, Usable
    <3>1. LineOf(s) = Line(reading.name, FALSE, missing)
      BY <2>3, <3>a DEF LineOf, GetMissingRequirements
    <3>2. LinesFor(s)' = {LineOf(s)}
      BY <2>1, <2>2, <2>3, <3>1, NewLine DEF InSummary
    <3> QED  BY <1>9, <1>a, <1>c, <2>1, <2>2, <2>3, <3>2 DEF SummarizeMissing, InSummary
  <2>4. CASE s # reading.name
    <3>1. LinesFor(s)' = LinesFor(s)
      BY <2>2, <2>4, NewLine
    <3> QED  BY <1>9, <1>a, <1>c, <2>1, <2>2, <2>4, <3>1 DEF SummarizeMissing, InSummary
  <2> QED  BY <2>3, <2>4
<1>10. CASE PromptBuilt
  <2>1. SUFFICES ASSUME NEW s \in SkillNames \ touched, InSummary(s) PROVE InDone(s)'
    BY <1>10 DEF PromptBuilt, PromptInv, Progress
  <2>2. LinesFor(s)' = LinesFor(s)
    BY <1>10, <1>b DEF PromptBuilt
  <2> QED  BY <1>10, <1>a, <1>c, <2>1, <2>2 DEF PromptBuilt, InSummary, InDone
<1>d. ASSUME NEW s \in SkillNames, Progress(s), Unbuilt' = Unbuilt,
             (s \in SkillEntries)' <=> s \in SkillEntries,
             GetSkillMetadata(s)' = GetSkillMetadata(s),
             Usable(s)' <=> Usable(s), Ready(s)' <=> Ready(s),
             Wanted(s)' <=> Wanted(s), LineOf(s)' = LineOf(s)
      PROVE  Progress(s)'
  <2>1. LinesFor(s)' = LinesFor(s)
    BY <1>d, <1>b DEF Unbuilt
  <2>2. /\ InCheck(s) => InCheck(s)'
        /\ InAlways(s) => InAlways(s)'
        /\ InLoad(s) => InLoad(s)'
    BY <1>d, <2>1 DEF Unbuilt, InCheck, InAlways, InLoad
  <2>3. /\ InSummary(s) => InSummary(s)'
        /\ InDone(s) => InDone(s)'
    BY <1>d, <2>1 DEF Unbuilt, InSummary, InDone
  <2> QED  BY <1>d, <2>2, <2>3 DEF Unbuilt, Progress
<1>11. ASSUME NEW t \in SkillNames, EditSkill(t) PROVE PromptInv'
  <2>1. files' \in [SkillNames -> File \cup {Absent}]
    BY <1>11 DEF EditSkill, PromptInv
  <2>2. SUFFICES ASSUME NEW s \in SkillNames \ touched, s # t PROVE Progress(s)'
    BY <1>11, <2>1 DEF EditSkill, Unbuilt, PromptInv
  <2>3. files'[s] = files[s] /\ installed' = installed /\ Unbuilt' = Unbuilt
    BY <1>11, <2>2 DEF EditSkill, PromptInv, Unbuilt
  <2>4. Progress(s)
    BY DEF PromptInv
  <2> QED  BY <1>d, <2>3, <2>4, SameSkill
<1>12. ASSUME NEW c \in Commands, InstallOrRemove(c) PROVE PromptInv'
  <2>1. SUFFICES ASSUME NEW s \in SkillNames, s \notin touched' PROVE Progress(s)'
    BY <1>12 DEF InstallOrRemove, Unbuilt, PromptInv
  <2>2. Progress(s) /\ Unbuilt' = Unbuilt
    BY <1>12, <2>1 DEF InstallOrRemove, PromptInv, Unbuilt
  <2> QED  BY <1>12, <1>d, <2>1, <2>2, OtherCommand
<1>13. CASE UNCHANGED vars
  <2>1. SUFFICES ASSUME NEW s \in SkillNames \ touched PROVE Progress(s)'
    BY <1>13 DEF vars, PromptInv
  <2>2. Progress(s) /\ Unbuilt' = Unbuilt
    BY <1>13 DEF vars, PromptInv, Unbuilt
  <2>3. files' = files /\ installed' = installed
    BY <1>13 DEF vars
  <2> QED  BY <1>a, <1>d, <2>2, <2>3
<1> QED
  BY <1>1, <1>2, <1>3, <1>4, <1>5, <1>6, <1>7, <1>8, <1>9, <1>10, <1>11, <1>12, <1>13
     DEF Next

(* What is read of a SKILL.md, whatever its form. *)
LEMMA MetadataTyped ==
    ASSUME TypeOK, NEW s \in SkillNames
    PROVE  /\ GetSkillMetadata(s).always \in BOOLEAN
           /\ GetSkillMetadata(s).needs \subseteq Commands \cup EnvVars
<1>1. files[s] # Absent => files[s].meta \in Meta
  <2>1. files[s] \in File \cup {Absent}
    BY DEF TypeOK
  <2>2. NoMeta \in Meta
    BY DEF NoMeta, Meta
  <2> HIDE DEF Meta
  <2> QED  BY <2>1, <2>2 DEF File
<1>2. GetSkillMetadata(s) \in Meta
  BY <1>1 DEF GetSkillMetadata, Meta, NoMeta
<1> QED  BY <1>2 DEF Meta

(* Only a skill is ever missing something. *)
ReadingSkill == reading # Nobody => reading.name \in SkillNames

(* Whatever is edited or installed while a prompt is built, the lists of   *)
(* skills hold names of directories, and every line of the summary names a *)
(* skill and commands or variables.                                        *)
THEOREM SkillsTypeCorrect == Spec => []TypeOK
<1> USE DEF TypeOK
<1> DEFINE Inv == TypeOK /\ ReadingSkill
<1>1. Init => Inv
  BY MaxEditsAssumption DEF Init, Nobody, ReadingSkill
<1>2. Inv /\ [Next]_vars => Inv'
  <2> SUFFICES ASSUME TypeOK, ReadingSkill, [Next]_vars PROVE TypeOK' /\ ReadingSkill'
    OBVIOUS
  <2> USE DEF ReadingSkill
  <2>1. CASE ListSkills \/ ListSkillsAgain
    BY <2>1 DEF ListSkills, ListSkillsAgain, SkillEntries
  <2>2. CASE Checked \/ AlwaysSkillsFound \/ PromptBuilt
    BY <2>2 DEF Checked, AlwaysSkillsFound, PromptBuilt
  <2>3. ASSUME NEW s \in SkillNames, CheckSkill(s) \/ AlwaysSkill(s) \/ LoadSkill(s)
        PROVE  Inv'
    BY <2>3 DEF CheckSkill, AlwaysSkill, LoadSkill
  <2>4. ASSUME NEW s \in SkillNames, SummarizeSkill(s) PROVE Inv'
    <3> DEFINE needs == GetSkillMetadata(s).needs
    <3>1. needs \subseteq Commands \cup EnvVars
      BY MetadataTyped
    <3> HIDE DEF needs
    <3>2. /\ reading' \in {reading, [name |-> s, needs |-> needs]}
          /\ summary' \in {summary, summary \cup {Line(s, TRUE, {})}}
          /\ todo' \subseteq todo
          /\ UNCHANGED <<files, installed, edits, pc, found, active, touched>>
      BY <2>4 DEF SummarizeSkill, needs
    <3>3. Line(s, TRUE, {}) \in [name : SkillNames, available : BOOLEAN,
                                 missing : SUBSET (Commands \cup EnvVars)]
      BY DEF Line
    <3>4. [name |-> s, needs |-> needs]
              \in [name : SkillNames \cup {Absent}, needs : SUBSET (Commands \cup EnvVars)]
      BY <3>1
    <3>5. [name |-> s, needs |-> needs].name = s
      OBVIOUS
    <3> HIDE DEF Line
    <3>6. summary' \subseteq [name : SkillNames, available : BOOLEAN,
                              missing : SUBSET (Commands \cup EnvVars)]
      BY <3>2, <3>3
    <3>7. /\ reading' \in [name : SkillNames \cup {Absent}, needs : SUBSET (Commands \cup EnvVars)]
          /\ reading' = reading \/ reading'.name \in SkillNames
      BY <3>2, <3>4, <3>5
    <3> QED  BY <3>2, <3>6, <3>7
  <2>5. CASE SummarizeMissing
    <3>1. reading.name \in SkillNames
      BY <2>5 DEF SummarizeMissing, Nobody
    <3> DEFINE l == Line(reading.name, FALSE, GetMissingRequirements(reading.needs))
    <3>2. l \in [name : SkillNames, available : BOOLEAN, missing : SUBSET (Commands \cup EnvVars)]
      BY <3>1 DEF GetMissingRequirements, Line
    <3>3. Nobody \in [name : SkillNames \cup {Absent}, needs : SUBSET (Commands \cup EnvVars)]
      BY DEF Nobody
    <3>4. /\ summary' = summary \cup {l} /\ reading' = Nobody
          /\ UNCHANGED <<files, installed, edits, pc, todo, found, active, touched>>
      BY <2>5 DEF SummarizeMissing
    <3> HIDE DEF l
    <3> QED  BY <3>2, <3>3, <3>4
  <2>6. ASSUME NEW s \in SkillNames, EditSkill(s) PROVE Inv'
    BY <2>6, MaxEditsAssumption DEF EditSkill, Unbuilt
  <2>7. ASSUME NEW c \in Commands, InstallOrRemove(c) PROVE Inv'
    BY <2>7, MaxEditsAssumption DEF InstallOrRemove, Unbuilt, SkillEntries
  <2>8. CASE UNCHANGED vars
    BY <2>8 DEF vars
  <2> QED  BY <2>1, <2>2, <2>3, <2>4, <2>5, <2>6, <2>7, <2>8 DEF Next
<1> QED  BY <1>1, <1>2, PTL DEF Spec

(* A skill that does not change while the prompt is built is in the prompt *)
(* as it is, whatever happens to the others.                               *)
THEOREM PromptCurrent == Spec => []PromptIsCurrent
<1>1. PromptInv => PromptIsCurrent
  BY DEF PromptInv, Progress, InDone, Wanted, LinesFor, PromptIsCurrent
<1> QED  BY <1>1, PromptInit, PromptNext, PTL DEF Spec

(* No SKILL.md has a frontmatter of several lines. *)
OneLineEach == \A s \in SkillEntries : files[s].front # "lines"

(* A skill marked as always is returned when its requirements are met, as  *)
(* long as no SKILL.md has a frontmatter of several lines: the finding has *)
(* no other cause, whatever is edited and installed meanwhile.             *)
THEOREM OneLineSkillsAreReturned == Spec /\ []OneLineEach => []AlwaysSkillsReturned
<1>1. PromptInv /\ OneLineEach => AlwaysSkillsReturned
  <2> SUFFICES ASSUME PromptInv, OneLineEach, pc = "done",
                      NEW s \in SkillEntries \ touched,
                      files[s].meta.always, files[s].meta.needs \subseteq Have
               PROVE  s \in active
    BY DEF AlwaysSkillsReturned
  <2>1. s \in SkillNames /\ files[s] \in File /\ files[s] # Absent
    BY DEF SkillEntries, PromptInv
  <2>2. GetSkillMetadata(s) = files[s].meta
    <3>1. CASE files[s].front = "one line"
      BY <2>1, <3>1 DEF GetSkillMetadata
    <3>2. CASE files[s].front # "one line"
      <4>1. files[s] \in [front : {"none", "broken"}, meta : {NoMeta}]
        BY <2>1, <3>2 DEF File, OneLineEach
      <4> QED BY <2>1, <3>2, <4>1 DEF GetSkillMetadata
    <3> QED BY <3>1, <3>2
  <2>3. Wanted(s)
    BY <2>2 DEF Wanted, Usable
  <2> QED BY <2>1, <2>3 DEF PromptInv, Progress, InDone
<1> QED BY <1>1, PromptInit, PromptNext, PTL DEF Spec
=============================================================================
