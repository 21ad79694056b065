SPECIFICATION Spec
CONSTANTS
  MaxEvents = 2
  MaxClients = 2
PROPERTY ClientRecovers
\* a connection that is ready and settled has nothing left to do
CHECK_DEADLOCK FALSE
