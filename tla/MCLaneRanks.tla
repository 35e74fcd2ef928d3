----------------------------- MODULE MCLaneRanks -----------------------------
EXTENDS LaneRanks

CONSTANTS r1, r2

===============================================================================
