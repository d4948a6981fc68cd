---------------------------- MODULE MCExcelSync ----------------------------
\* Two scans of one minute for TLC, one of which finds an empty universe.
EXTENDS ExcelSync, TLC

CONSTANTS morning, manual

MCScans == {morning, manual}
MCMaxRows == (morning :> 2) @@ (manual :> 0)
=============================================================================
