------------------------ MODULE MCEmergencyOverride ------------------------
EXTENDS EmergencyOverride

\* Everything at once, what leaves rows behind left out, and heartbeats and
\* reconciliations alone.
AllMixes == {{"end", "across"}, {"crash", "fail", "limit"}}
NoEvents == {{}}
=============================================================================
