CONSTANTS
    weather = weather
    github = github
    gh = gh
    TOKEN = TOKEN
    Absent = Absent
    SkillNames = {weather, github}
    Commands = {gh}
    EnvVars = {TOKEN}
    Environment = {}
    MaxEdits = 2
SPECIFICATION Spec
INVARIANTS
    TypeOK
    PromptIsCurrent
