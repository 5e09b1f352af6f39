\* Two processes: a deployment starts the next before it stops the last.
CONSTANT
    Servers = {s1, s2}
SPECIFICATION Spec
INVARIANT
    BackfillFindsUser
