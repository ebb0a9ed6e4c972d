\* Two releases staged before either is activated.
CONSTANT MaxVersion = 2
\* Nothing is left to do once the newest version is active.
CHECK_DEADLOCK FALSE
SPECIFICATION RelSpec
PROPERTY MonotonicVersions
