SPECIFICATION Spec
CONSTANTS
    Handlers = {h1, h2}
    Fds = {fd1}
    None = None
INVARIANT
    OnlyKickedAreClosed
