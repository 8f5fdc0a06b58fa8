\* A daemon dies by SIGKILL (or a reboot) and its PID goes to another process.
SPECIFICATION Spec
CONSTANTS
    p1 = p1
    p2 = p2
    p3 = p3
    p4 = p4
    Pids <- MCThreePids
    NoPid = NoPid
    PidReuse = TRUE
    MaxStops = 0
    MaxKills = 1
PROPERTY DaemonComesBack
