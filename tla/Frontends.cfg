CONSTANTS
    Proc <- MCProc
    Pass = {"key"}
    MaxWrites = 2
    Tui = "tui"
    TuiPass <- MCNoPass
    Mcp = "mcp"
    McpPass = "key"
    McpStore = TRUE
    McpLines <- MCLines
    MaxLines = 2
    Host = "host"
    HostPass <- MCNoPass
    Cli = "cli"
    Scenes <- MCScenes
    Settings <- MCSettings
SPECIFICATION Spec
INVARIANTS TypeOK AckedPresent ScreenHonest
PROPERTIES SetupTruthful EveryCallReturns
