SPECIFICATION AccessSpec
CONSTANTS
  admin = admin
  member = member
  guest = guest
  NotMember = NotMember
  Roles = {admin, member}
  RoleMember = member
  Slugs = {admin, member, guest}
  DefaultOrganization = FALSE
  RoleAdmin = admin
  Requests = {q1, q2}
  rolePermissions <- MCPermissions
  MaxChanges = 2
  MaxLogins = 1
SYMMETRY RequestSymmetry
INVARIANTS
  OneRoleBound
  AnswersMatchRole
  MirrorFollows
CHECK_DEADLOCK FALSE
