CONSTANTS
    weather = weather
    github = github
    gh = gh
    TOKEN = TOKEN
    Absent = Absent
    SkillNames = {weather}
    Commands = {gh}
    EnvVars = {TOKEN}
    Environment = {}
    MaxEdits = 1
SPECIFICATION Spec
INVARIANTS
    AlwaysSkillsReturned
