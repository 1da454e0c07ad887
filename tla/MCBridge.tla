------------------------------ MODULE MCBridge ------------------------------
EXTENDS Bridge
\* A save with entries before and after it, an event after it, and steps with
\* nothing between them.
MCLog == <<"step", "save", "event", "step", "step">>
=============================================================================
