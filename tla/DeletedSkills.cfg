\* One skill that is stored, snapshotted, deleted and comes back.
SPECIFICATION Spec
CONSTANTS
    Names = {n1}
    Edits = {e1, e2}
    Sessions = {s1, s2}
    None = None
INVARIANT DeletedSkillsStayOut
\* Edits and sessions are finitely many: when they are over nothing is left to do.
CHECK_DEADLOCK FALSE
