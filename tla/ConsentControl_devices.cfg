SPECIFICATION Spec
CONSTANTS
    Devices = {d1, d2}
    Rooms = {r1}
    Handles = {h1, h2}
    Cap = 1
    MaxChanges = 2
    MaxFaults = 1
SYMMETRY DeviceSymmetry
CHECK_DEADLOCK FALSE
 
INVARIANT OneChangePerRevision
PROPERTY LateWriteBarred
