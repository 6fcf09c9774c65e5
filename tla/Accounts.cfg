SPECIFICATION Spec
CONSTANTS
  u1 = u1
  u2 = u2
  u3 = u3
  e1 = e1
  e2 = e2
  e3 = e3
  o1 = o1
  o2 = o2
  o3 = o3
  None = None
  Users = {u1, u2, u3}
  Emails = {e1, e2, e3}
  Pilots = {p1, p2, o1, o2, o3}
  FirstAdmin = u1
  Members = {{u1}, {u1, u2}}
  AddressOf <- MCAddressOf
  OwnPilot <- MCOwnPilot
  Requests = {r1, r2}
  Worlds = {{"roles", "delete", "crash", "adminVerify"},
            {"roles", "relink", "myPilot"},
            {"roles", "relink", "adminPilot", "email"},
            {"register", "newPilot", "email", "fail"},
            {"register", "delete", "crash"},
            {"email", "verify", "resend", "bump"},
            {"adminPilot", "myPilot", "crash"},
            {"newPilot", "editPilot", "fail"},
            {"adminPilot", "myPilot", "email"},
            {"delete", "email", "crash"},
            {"delete", "myPilot", "editPilot", "fail"}}
  MaxOps = 3
  MaxFaults = 1
INVARIANTS
  AdminRemains
  OneAddress
  MailedLinkWorks
  PilotsBelong
