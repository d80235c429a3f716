SPECIFICATION LibrariesSpec
INVARIANTS LibraryTypes  MediaSound JobsOrderly    
\* a call may wait for an event, an element or a bit that nobody gives
CHECK_DEADLOCK FALSE
