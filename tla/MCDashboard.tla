----------------------------- MODULE MCDashboard -----------------------------
EXTENDS Dashboard

TwoProcesses == {"old", "new"}
TheOld == {"old"}
TwoVersions == {"v1", "v2"}
=============================================================================
