SPECIFICATION Spec
CONSTANTS
  Files = {a, b}
  Places <- Some
  MaxChanges = 2
  MaxJobs = 2
  MaxRepairs = 1
SYMMETRY Perms
INVARIANT LoadedIsOnDisk VerifyReportsAll RepairedAsRecorded
