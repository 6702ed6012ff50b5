------------------------ MODULE MCTestforgeScenarios ------------------------
EXTENDS TestforgeScenarios

One(action, p, q, arg) == [action |-> action, p |-> p, q |-> q, arg |-> arg]
OnA(actions) == {One(a, "a", "a", "-") : a \in actions}

\* Those that look at the files the first two have made.
Third ==
    OnA({"REGULAR_FILE", "DEVICE_BUSY"})
    \cup {One("OPEN_FAILURE", "a", "a", "ENOENT"), One("HARD_LINK", "a", "b", "-")}

Second ==
    Third
    \cup OnA({"PERMISSION_PATTERN", "FIFO", "FILE_TAMPER"})
    \cup {One("SYMLINK", "a", "b", "-"), One("DEVICE_BUSY", "b", "b", "-"),
          One("TCP_FLOOD", "b", "b", 1)}
    \cup {One("SIGNAL_INJECTION", "b", "b", n) : n \in {0, 1}}

First ==
    Second
    \cup OnA({"RANDOM_WRITE", "DIRECTORY", "DEEP_DIRECTORY", "UNIX_SOCKET", "BROKEN_SYMLINK",
              "DEVICE"})
    \cup {One("SYMLINK", "b", "a", "-"), One("READ_FAILURE", "a", "a", "EISDIR")}
    \cup {One(a, "b", "b", 1) : a \in {"MEMORY_LEAK", "OOM_PRESSURE", "CPU_BURN", "ZOMBIE_PROCESS",
                                       "TCP_SERVER"}}

MCMenu == <<First, Second, Third>>
=============================================================================
