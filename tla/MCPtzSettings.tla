---------------------------- MODULE MCPtzSettings ----------------------------
EXTENDS PtzSettings
CONSTANTS iris, gain
MCOrder  == <<iris, gain>>
MCInitially == [p \in {iris, gain} |-> 0]
MCPreset == [p \in {iris, gain} |-> IF p = iris THEN 0 ELSE 1]
=============================================================================
